---- MODULE Spec2Model ----
(***************************************************************************)
(* Capture session engine of leandrodaf/midi.                              *)
(*                                                                         *)
(* Three session implementations are modelled, selected by `backend`:      *)
(*   "darwinwg" - mididarwin.ClientMid with the WaitGroup barrier and      *)
(*                the stop-once guard                                      *)
(*   "darwinnb" - mididarwin.ClientMid without barrier                     *)
(*   "windows"  - midiwindows.ClientMid                                    *)
(* Owner threads call SelectDevice / StartCapture / Stop; callback threads *)
(* are the native threads that run handleMIDIMessage / midiInCallback.     *)
(* Every access to shared memory (mutex, atomic.Value, WaitGroup, native   *)
(* call) is one step.                                                      *)
(***************************************************************************)
EXTENDS Integers, Sequences, FiniteSets, TLC

\* ---------------------------------------------------------------- bounds
NumOwners    == 2   \* owner threads
NumCallbacks == 2   \* native callback threads
MaxConns     == 2   \* native connections opened in one behaviour
SinkCap      == 1   \* least capacity of a caller-owned channel
MaxDeliveries == 3  \* packets the bridge delivers in the serialized scenario
MaxLogCalls  == 2   \* calls made to the logger in the logger scenario

\* ------------------------------------------------------ program constants
NoteOn     == 144   \* 0x90
NoteOff    == 128   \* 0x80
NumDevices == 2     \* endpoints the platform reports

Owners    == 1..NumOwners     \* threads of the application that call the client
MainOwner == 1               \* the thread that selects and starts; all may Stop
Callbacks == 1..NumCallbacks
Sinks     == {1, 2}          \* caller-owned channels; 0 is the nil channel
Unset     == 0               \* atomic.Value never stored: Load() yields nil
NilChan   == 8               \* a stored nil channel (typed nil: Store accepts it)
MIM_OPEN  == 961             \* 0x3C1
MIM_DATA  == 963             \* 0x3C3
Dummy     == 9               \* the unbuffered channel Stop() stores (darwinwg)
DeadConn  == 99              \* value left in portConn by a failed Connect
DeviceIds == (0 - 1)..NumDevices
Packets   == {<<144, 60, 100>>, <<128, 60, 0>>, <<145, 60, 100>>, <<144, 60>>}

VARIABLES
    backend,        \* which ClientMid implementation this session is
    logger,         \* options.Logger: its kind, level and what it has emitted
    listing,        \* the platform's endpoint table and what ListDevices /
                    \* SelectDevice made of it (device-list scenario)
    filterSet,      \* options.MIDIEventFilter != nil
    filterCommands, \* options.MIDIEventFilter.Commands
    mu,             \* ClientMid.mu: 0 free, else the owner holding it
    capturing,      \* ClientMid.capturing (darwin)
    eventChannel,   \* ClientMid.eventChannel (atomic.Value)
    portConn,       \* ClientMid.portConn: darwin 0 = nil / connection; windows 0/1
    handle,         \* ClientMid.handle (windows)
    wg,             \* ClientMid.wg counter (darwinwg)
    onceDone,       \* ClientMid.stopOnce.done (darwinwg)
    onceMu,         \* ClientMid.stopOnce.m (darwinwg)
    live,           \* native side: connections / handles currently open
    startedH,       \* native side: handles on which midiInStart succeeded
    nextConn,       \* native side: next fresh connection id
    doubleClose,    \* native side: a connection was closed that was not open
    pc, op, arg, res, nested,   \* owner threads
    cpc, pkt, ch,               \* callback threads
    sinkQ,          \* contents of the caller-owned channels
    chanCap,        \* capacity the application gave each of its channels
    life,           \* history: where the owner's call sequence stands
    stopReturned,   \* history: some Stop() call has returned nil
    delivered       \* history: packets the bridge has handed over in sequence

sessVars   == <<backend, logger, listing, chanCap, filterSet,
                   filterCommands, mu, capturing, eventChannel,
                portConn, handle, wg, onceDone, onceMu>>
nativeVars == <<live, startedH, nextConn, doubleClose>>
ownerVars  == <<pc, op, arg, res, nested>>
cbVars     == <<cpc, pkt, ch>>
histVars   == <<life, stopReturned, delivered>>
vars       == <<sessVars, nativeVars, ownerVars, cbVars, sinkQ, histVars>>

\* ------------------------------------------------------------ pure helpers

\* isCommandAllowed: linear search of the allowed commands.
isCommandAllowed(command, allowedCommands) ==
    \E i \in 1..Len(allowedCommands) : command = allowedCommands[i]

\* Mutant: a handler that finds nothing stored uses channel 1.
LoadChannel_Default == IF eventChannel \in {Unset, NilChan} THEN 1 ELSE eventChannel

\* atomic.Value.Load().(chan contracts.MIDI): nil when nothing was stored.
LoadChannel == IF eventChannel \in {Unset, NilChan} THEN 0 ELSE eventChannel

\* atomic.Value.Store(v) panics when v is the untyped nil.
StorePanics(v) == v = 0

\* Mutant: the send succeeds whether or not the channel has room.
CanSend_Unbounded(c) == c \in Sinks

\* select { case ch <- ev: default: }: the send succeeds only on a
\* caller-owned channel with room; the dummy channel has no buffer and no
\* receiver.
CanSend(c) == c \in Sinks /\ Len(sinkQ[c]) < chanCap[c]

\* internalPortConnection.Disconnect() / midiInClose on the native side.
NativeClose(id) ==
    /\ live' = live \ {id}
    /\ startedH' = startedH \ {id}
    /\ doubleClose' = (doubleClose \/ (id /= DeadConn /\ id \notin live))

\* --------------------------------------------------------------- history

\* Callback threads that are inside the handler: entered, and (with the
\* barrier) not yet past the decrement of their deferred m.wg.Done().
InHandler ==
    {c \in Callbacks : cpc[c] \notin {"idle", "dispatched", "h_release",
                                      "crashed"}}

\* An unrecovered panic on a callback thread ends the process.
Crashed == \E c \in Callbacks : cpc[c] = "crashed"

\* `life` follows the owner's calls while they form one of the sequences
\*   SelectDevice(ok) StartCapture(1) Stop()            ... "stopped"
\*   SelectDevice(ok) StartCapture(1) StartCapture(2)   ... "restarted"
\*   SelectDevice(ok) Stop()                            ... "selStopped"
\*   StartCapture(s)                                    ... "idleStarted"
\* each call made after the previous one returned (ListDevices calls do not
\* count); a SelectDevice made while
\* a device is selected ("reselecting") or capturing ("reselectingCap") keeps
\* the sequence where it was when it succeeds ("reselected" when it succeeds
\* on a capturing session at a moment no callback is pending, so that every
\* later callback comes from the new connection); anything else is "off".
\* A Stop() that panicked has not returned: the sequence reaches "stopped"
\* with the next Stop() that returns nil.
LifeOnCall(o, a) ==
    CASE o = "list"                                -> life
      [] o = "select" /\ life = "new"               -> "selecting"
      [] o = "select" /\ life = "selected"          -> "reselecting"
      [] o = "select" /\ life \in {"started", "reselected"}
                                                   -> "reselectingCap"
      [] o = "start" /\ life = "new" /\ a /= 0      -> "idleStarting"
      [] o = "start" /\ life = "selected" /\ a = 1  -> "starting"
      [] o = "start" /\ life \in {"started", "reselected"} /\ a = 2
                                                   -> "restarting"
      [] o = "stop" /\ life = "selected"            -> "selStopping"
      [] o = "stop" /\ life \in {"started", "reselected"}
                                                   -> "stopping"
      [] o = "stop" /\ life = "stopPanicked"        -> "stoppingAgain"
      [] OTHER                                      -> "off"

LifeOnReturn(r) ==
    CASE life = "selecting"    -> IF r = "ok" THEN "selected" ELSE "off"
      [] life = "reselecting"  -> IF r = "ok" THEN "selected"
                                  ELSE "reselectFailed"
      [] life = "reselectingCap" ->
           IF r /= "ok" THEN "capReselectFailed"
           ELSE IF \A c \in Callbacks : cpc[c] = "idle" THEN "reselected"
           ELSE "started"
      [] life = "idleStarting" -> "idleStarted"
      [] life = "starting"     -> "started"
      [] life = "restarting"   -> IF InHandler = {} THEN "restarted" ELSE "off"
      [] life = "selStopping"  -> IF r = "ok" THEN "selStopped" ELSE "off"
      [] life = "stopping"     -> IF r = "ok" THEN "stopped"
                                  ELSE IF r = "panic" THEN "stopPanicked"
                                  ELSE "off"
      [] life = "stoppingAgain" -> IF r = "ok" THEN "stopped" ELSE "off"
      [] OTHER                 -> life

\* An owner thread enters a public operation.
Call(t, o, a, first) ==
    /\ pc[t] = "idle"
    /\ pc' = [pc EXCEPT ![t] = first]
    /\ op' = [op EXCEPT ![t] = o]
    /\ arg' = [arg EXCEPT ![t] = a]
    /\ life' = LifeOnCall(o, a)
    /\ UNCHANGED <<res, nested, stopReturned, delivered>>

\* An owner thread leaves a public operation with result r; a call made
\* from inside the operation has unwound with it.
Return(t, r) ==
    /\ pc' = [pc EXCEPT ![t] = "ret"]
    /\ res' = [res EXCEPT ![t] = r]
    /\ life' = IF op[t] = "list" THEN life ELSE LifeOnReturn(r)
    /\ stopReturned' = (stopReturned \/ (op[t] = "stop" /\ r = "ok"))
    /\ nested' = [nested EXCEPT ![t] = FALSE]
    /\ UNCHANGED <<op, arg, delivered>>

\* The caller has the result and is free to make its next call.
OwnerFinish(t) ==
    /\ pc[t] = "ret"
    /\ pc' = [pc EXCEPT ![t] = "idle"]
    /\ op' = [op EXCEPT ![t] = "none"]
    /\ arg' = [arg EXCEPT ![t] = 0]
    /\ res' = [res EXCEPT ![t] = "none"]
    /\ UNCHANGED <<nested, histVars>>
    /\ UNCHANGED <<sessVars, nativeVars, cbVars, sinkQ>>

Goto(t, p) ==
    /\ pc' = [pc EXCEPT ![t] = p]
    /\ UNCHANGED <<op, arg, res, nested, histVars>>

\* A callback thread moves on; its locals (the packet it was handed and the
\* channel it loaded) are kept only while the invocation is still running.
CbGoto(c, p, packet, loaded) ==
    /\ cpc' = [cpc EXCEPT ![c] = p]
    /\ pkt' = [pkt EXCEPT ![c] = IF p \in {"h_send", "h_done"} THEN packet
                                 ELSE <<>>]
    /\ ch' = [ch EXCEPT ![c] = IF p = "h_send" THEN loaded ELSE 0]

\* ------------------------------------------------------------------ Init

\* contracts.LogLevel, in the order of its iota.
InfoLevel  == 0
DebugLevel == 1
ErrorLevel == 2
WarnLevel  == 3
FatalLevel == 4
LogLevels  == {InfoLevel, DebugLevel, ErrorLevel, WarnLevel, FatalLevel}

\* zapcore.Level of the message, as ZapLogger's methods pass it to log().
ZapLevel(sev) ==
    CASE sev = DebugLevel -> 0 - 1
      [] sev = InfoLevel  -> 0
      [] sev = WarnLevel  -> 1
      [] sev = ErrorLevel -> 2
      [] sev = FatalLevel -> 5

\* contracts.LogDestination
ConsoleLog == "console"
FileLog    == "file"

\* NewZapLogger / NewStandardLogger: level InfoLevel, console destination, no
\* file, nothing emitted yet.  `file` tells whether s.file is non-nil,
\* `pending` holds the messages of ZapLogger.log calls that are past the
\* level test and have not yet written, `exiting` tells whether a Fatal call
\* is past its log() and before its os.Exit(1), `exited` whether the process
\* has exited.
NewLogger(kind) ==
    [kind |-> kind, level |-> InfoLevel, dest |-> ConsoleLog, file |-> FALSE,
     calls |-> 0, pending |-> <<>>, out |-> <<>>, exiting |-> FALSE,
     exited |-> FALSE]

\* NewFileLogger(file): a StandardLogger with destination FileLog and the
\* file the caller hands over, which may be nil.
NewFileLogger(file) ==
    [NewLogger("standard") EXCEPT !.dest = FileLog, !.file = file]

\* applyDefaultOptions: the default logger is the zap one, SetLevel(InfoLevel).
DefaultLogger == NewLogger("zap")

InitFields ==
    /\ filterSet \in BOOLEAN
    /\ filterCommands \in (IF filterSet THEN {<<>>, <<NoteOn>>} ELSE {<<>>})
    /\ mu = 0
    /\ capturing = FALSE
    /\ eventChannel = Unset
    /\ portConn = 0
    /\ handle = 0
    /\ wg = 0
    /\ onceDone = FALSE
    /\ onceMu = 0
    /\ live = {}
    /\ startedH = {}
    /\ nextConn = 1
    /\ doubleClose = FALSE
    /\ pc = [t \in Owners |-> "idle"]
    /\ op = [t \in Owners |-> "none"]
    /\ arg = [t \in Owners |-> 0]
    /\ res = [t \in Owners |-> "none"]
    /\ nested = [t \in Owners |-> FALSE]
    /\ cpc = [c \in Callbacks |-> "idle"]
    /\ pkt = [c \in Callbacks |-> <<>>]
    /\ ch = [c \in Callbacks |-> 0]
    /\ sinkQ = [s \in Sinks |-> <<>>]
    /\ life = "new"
    /\ stopReturned = FALSE
    /\ delivered = 0

\* Outside the device-list scenario the endpoint table is not looked at.
NoListing == [native |-> <<>>, res |-> "none", list |-> <<>>, sel |-> 0 - 1,
              selRes |-> "none", opened |-> 0]

\* make(chan contracts.MIDI, n) by the application: every channel has the
\* least capacity unless the scenario says otherwise.
DefaultCaps == [s \in Sinks |-> SinkCap]

Init0 ==
    /\ InitFields
    /\ logger = DefaultLogger
    /\ listing = NoListing
    /\ chanCap = DefaultCaps

InitWG  == backend = "darwinwg" /\ Init0
InitNB  == backend = "darwinnb" /\ Init0
InitWin == backend = "windows" /\ Init0

\* ------------------------------------------- darwin: SelectDevice (WG, NB)

IsDarwin == backend \in {"darwinwg", "darwinnb"}

SelectDevice_Call(t, id) ==
    /\ nextConn <= MaxConns
    /\ Call(t, "select", id, "sd_lock")
    /\ UNCHANGED <<sessVars, nativeVars, cbVars, sinkQ>>

\* m.mu.Lock()
D_SelectDevice_Lock(t) ==
    /\ IsDarwin /\ pc[t] = "sd_lock" /\ mu = 0
    /\ mu' = t
    /\ Goto(t, "sd_sources")
    /\ UNCHANGED <<backend, logger, listing, chanCap, filterSet,
                   filterCommands, capturing, eventChannel,
                   portConn, handle, wg, onceDone, onceMu>>
    /\ UNCHANGED <<nativeVars, cbVars, sinkQ>>

\* coremidi.AllSources() and the range check of deviceID.
D_SelectDevice_Sources(t) ==
    /\ IsDarwin /\ pc[t] = "sd_sources"
    /\ \E ok \in BOOLEAN :
         IF ~ok
           THEN /\ mu' = 0 /\ Return(t, "ErrSources")
           ELSE IF arg[t] < 0 \/ arg[t] >= NumDevices
             THEN /\ mu' = 0 /\ Return(t, "ErrInvalidMIDIDevice")
             ELSE /\ mu' = mu /\ Goto(t, "sd_disc")
    /\ UNCHANGED <<backend, logger, listing, chanCap, filterSet,
                   filterCommands, capturing, eventChannel,
                   portConn, handle, wg, onceDone, onceMu>>
    /\ UNCHANGED <<nativeVars, cbVars, sinkQ>>

\* Mutant: the previous connection is forgotten without being disconnected.
D_SelectDevice_Disconnect_Leak(t) ==
    /\ IsDarwin /\ pc[t] = "sd_disc"
    /\ portConn' = 0
    /\ Goto(t, "sd_port")
    /\ UNCHANGED <<backend, logger, listing, chanCap, filterSet,
                   filterCommands, mu, capturing,
                   eventChannel, handle, wg, onceDone, onceMu>>
    /\ UNCHANGED <<nativeVars, cbVars, sinkQ>>

\* if m.portConn != nil { m.portConn.Disconnect(); m.portConn = nil }
D_SelectDevice_Disconnect(t) ==
    /\ IsDarwin /\ pc[t] = "sd_disc"
    /\ IF portConn /= 0
         THEN NativeClose(portConn) /\ portConn' = 0
         ELSE UNCHANGED <<live, startedH, doubleClose, portConn>>
    /\ Goto(t, "sd_port")
    /\ UNCHANGED <<backend, logger, listing, chanCap, filterSet,
                   filterCommands, mu, capturing,
                   eventChannel, handle, wg, onceDone, onceMu>>
    /\ UNCHANGED <<nextConn, cbVars, sinkQ>>

\* coremidi.NewInputPort(m.client, "Input Port", m.handleMIDIMessage)
D_SelectDevice_NewInputPort(t) ==
    /\ IsDarwin /\ pc[t] = "sd_port"
    /\ \E ok \in BOOLEAN :
         IF ok
           THEN /\ mu' = mu /\ Goto(t, "sd_conn")
           ELSE /\ mu' = 0 /\ Return(t, "ErrCreateInputPort")
    /\ UNCHANGED <<backend, logger, listing, chanCap, filterSet,
                   filterCommands, capturing, eventChannel,
                   portConn, handle, wg, onceDone, onceMu>>
    /\ UNCHANGED <<nativeVars, cbVars, sinkQ>>

\* m.portConn, err = m.inputPort.Connect(source); deferred m.mu.Unlock()
D_SelectDevice_Connect(t) ==
    /\ IsDarwin /\ pc[t] = "sd_conn"
    /\ \E ok \in BOOLEAN :
         IF ok
           THEN /\ portConn' = nextConn
                /\ live' = live \cup {nextConn}
                /\ nextConn' = nextConn + 1
                /\ Return(t, "ok")
           ELSE /\ portConn' = DeadConn
                /\ UNCHANGED <<live, nextConn>>
                /\ Return(t, "ErrMIDIConnectionError")
    /\ mu' = 0
    /\ UNCHANGED <<backend, logger, listing, chanCap, filterSet,
                   filterCommands, capturing, eventChannel,
                   handle, wg, onceDone, onceMu>>
    /\ UNCHANGED <<startedH, doubleClose, cbVars, sinkQ>>

\* ------------------------------------------------ darwinwg: StartCapture

StartCapture_Call(t, s) ==
    /\ Call(t, "start", s, "sc_lock")
    /\ UNCHANGED <<sessVars, nativeVars, cbVars, sinkQ>>

\* m.mu.Lock()
WG_StartCapture_Lock(t) ==
    /\ backend = "darwinwg" /\ pc[t] = "sc_lock" /\ mu = 0
    /\ mu' = t
    /\ Goto(t, "sc_check")
    /\ UNCHANGED <<backend, logger, listing, chanCap, filterSet,
                   filterCommands, capturing, eventChannel,
                   portConn, handle, wg, onceDone, onceMu>>
    /\ UNCHANGED <<nativeVars, cbVars, sinkQ>>

\* the nil check, and if m.capturing { m.Stop() }
WG_StartCapture_Check(t) ==
    /\ backend = "darwinwg" /\ pc[t] = "sc_check"
    /\ IF arg[t] = 0
         THEN /\ mu' = 0 /\ Return(t, "nilChannel")
         ELSE IF capturing
           THEN /\ mu' = mu
                /\ pc' = [pc EXCEPT ![t] = "st_once"]
                /\ nested' = [nested EXCEPT ![t] = TRUE]
                /\ UNCHANGED <<op, arg, res, histVars>>
           ELSE /\ mu' = mu /\ Goto(t, "sc_store")
    /\ UNCHANGED <<backend, logger, listing, chanCap, filterSet,
                   filterCommands, capturing, eventChannel,
                   portConn, handle, wg, onceDone, onceMu>>
    /\ UNCHANGED <<nativeVars, cbVars, sinkQ>>

\* m.eventChannel.Store(eventChannel); m.capturing = true; deferred Unlock
WG_StartCapture_Store(t) ==
    /\ backend = "darwinwg" /\ pc[t] = "sc_store"
    /\ eventChannel' = arg[t]
    /\ capturing' = TRUE
    /\ mu' = 0
    /\ Return(t, "started")
    /\ UNCHANGED <<backend, logger, listing, chanCap, filterSet,
                   filterCommands, portConn, handle, wg,
                   onceDone, onceMu>>
    /\ UNCHANGED <<nativeVars, cbVars, sinkQ>>

\* --------------------------------------------------------- darwinwg: Stop

Stop_Call(t) ==
    /\ Call(t, "stop", 0, "st_once")
    /\ UNCHANGED <<sessVars, nativeVars, cbVars, sinkQ>>

\* Stop() has nothing more to do: return nil to the caller, which is either
\* the application or StartCapture.
StopReturn(t) ==
    IF nested[t]
      THEN /\ pc' = [pc EXCEPT ![t] = "sc_store"]
           /\ nested' = [nested EXCEPT ![t] = FALSE]
           /\ UNCHANGED <<op, arg, res, histVars>>
      ELSE Return(t, "ok")

\* m.stopOnce.Do, `if o.done.Load() == 0 { o.doSlow(f) }`: returns at once
\* when the Once is done.
WG_Stop_Once(t) ==
    /\ backend = "darwinwg" /\ pc[t] = "st_once"
    /\ IF onceDone THEN StopReturn(t) ELSE Goto(t, "st_oncelock")
    /\ UNCHANGED <<sessVars, nativeVars, cbVars, sinkQ>>

\* doSlow: o.m.Lock(); if o.done.Load() == 0 { defer o.done.Store(1); f() }.
\* Only the holder of the Once's mutex stores done, so what the Load finds
\* is settled when the mutex is taken.
WG_Stop_OnceLock(t) ==
    /\ backend = "darwinwg" /\ pc[t] = "st_oncelock" /\ onceMu = 0
    /\ onceMu' = t
    /\ Goto(t, IF onceDone THEN "st_exit" ELSE "st_lock")
    /\ UNCHANGED <<backend, logger, listing, chanCap, filterSet,
                   filterCommands, mu, capturing,
                   eventChannel, portConn, handle, wg, onceDone>>
    /\ UNCHANGED <<nativeVars, cbVars, sinkQ>>

\* m.mu.Lock() inside the once body
WG_Stop_Lock(t) ==
    /\ backend = "darwinwg" /\ pc[t] = "st_lock" /\ mu = 0
    /\ mu' = t
    /\ Goto(t, "st_check")
    /\ UNCHANGED <<backend, logger, listing, chanCap, filterSet,
                   filterCommands, capturing, eventChannel,
                   portConn, handle, wg, onceDone, onceMu>>
    /\ UNCHANGED <<nativeVars, cbVars, sinkQ>>

\* if m.capturing { m.capturing = false ...
WG_Stop_Check(t) ==
    /\ backend = "darwinwg" /\ pc[t] = "st_check"
    /\ IF capturing
         THEN /\ capturing' = FALSE /\ Goto(t, "st_disc")
         ELSE /\ capturing' = capturing /\ Goto(t, "st_unlock")
    /\ UNCHANGED <<backend, logger, listing, chanCap, filterSet,
                   filterCommands, mu, eventChannel,
                   portConn, handle, wg, onceDone, onceMu>>
    /\ UNCHANGED <<nativeVars, cbVars, sinkQ>>

\* if m.portConn != nil { m.portConn.Disconnect(); m.portConn = nil }
WG_Stop_Disconnect(t) ==
    /\ backend = "darwinwg" /\ pc[t] = "st_disc"
    /\ IF portConn /= 0
         THEN NativeClose(portConn) /\ portConn' = 0
         ELSE UNCHANGED <<live, startedH, doubleClose, portConn>>
    /\ Goto(t, "st_store")
    /\ UNCHANGED <<backend, logger, listing, chanCap, filterSet,
                   filterCommands, mu, capturing,
                   eventChannel, handle, wg, onceDone, onceMu>>
    /\ UNCHANGED <<nextConn, cbVars, sinkQ>>

\* Mutant: Stop goes to its wait without replacing the channel.
WG_Stop_StoreDummy_Skip(t) ==
    /\ backend = "darwinwg" /\ pc[t] = "st_store"
    /\ Goto(t, "st_wait")
    /\ UNCHANGED <<sessVars, nativeVars, cbVars, sinkQ>>

\* m.eventChannel.Store(dummyChannel)
WG_Stop_StoreDummy(t) ==
    /\ backend = "darwinwg" /\ pc[t] = "st_store"
    /\ eventChannel' = Dummy
    /\ Goto(t, "st_wait")
    /\ UNCHANGED <<backend, logger, listing, chanCap, filterSet,
                   filterCommands, mu, capturing, portConn,
                   handle, wg, onceDone, onceMu>>
    /\ UNCHANGED <<nativeVars, cbVars, sinkQ>>

\* Mutant: the wait does not wait.
WaitGroupIdle_NoWait == TRUE

\* m.wg.Wait() returns without blocking when the counter is zero.
WaitGroupIdle == wg = 0

\* Owner threads registered as waiters of m.wg and asleep on its semaphore.
Waiters == {t \in Owners : pc[t] = "st_blocked"}

\* m.wg.Wait(), up to the semaphore: with the counter at zero it returns,
\* otherwise the caller registers as a waiter and sleeps until a Done that
\* brings the counter to zero releases it.
WG_Stop_Wait(t) ==
    /\ backend = "darwinwg" /\ pc[t] = "st_wait"
    /\ Goto(t, IF WaitGroupIdle THEN "st_unlock" ELSE "st_blocked")
    /\ UNCHANGED <<sessVars, nativeVars, cbVars, sinkQ>>

\* m.wg.Wait(), after the semaphore: `if wg.state.Load() != 0 { panic("sync:
\* WaitGroup is reused before previous Wait has returned") }`.  The released
\* waiter runs when the scheduler picks it; a handler that did m.wg.Add(1) in
\* between makes it panic, and the panic unwinds through the deferred calls.
WG_Stop_Woken(t) ==
    /\ backend = "darwinwg" /\ pc[t] = "st_woken"
    /\ pc' = [pc EXCEPT ![t] = "st_unlock"]
    /\ res' = [res EXCEPT ![t] = IF wg = 0 THEN @ ELSE "panic"]
    /\ UNCHANGED <<op, arg, nested, histVars>>
    /\ UNCHANGED <<sessVars, nativeVars, cbVars, sinkQ>>

\* deferred m.mu.Unlock() of the once body
WG_Stop_Unlock(t) ==
    /\ backend = "darwinwg" /\ pc[t] = "st_unlock"
    /\ mu' = 0
    /\ Goto(t, "st_done")
    /\ UNCHANGED <<backend, logger, listing, chanCap, filterSet,
                   filterCommands, capturing, eventChannel,
                   portConn, handle, wg, onceDone, onceMu>>
    /\ UNCHANGED <<nativeVars, cbVars, sinkQ>>

\* doSlow's deferred o.done.Store(1)
WG_Stop_OnceDone(t) ==
    /\ backend = "darwinwg" /\ pc[t] = "st_done"
    /\ onceDone' = TRUE
    /\ Goto(t, "st_exit")
    /\ UNCHANGED <<backend, logger, listing, chanCap, filterSet,
                   filterCommands, mu, capturing, eventChannel,
                   portConn, handle, wg, onceMu>>
    /\ UNCHANGED <<nativeVars, cbVars, sinkQ>>

\* doSlow's deferred o.m.Unlock(), then `return nil`, or the panic of the
\* wait going on to the caller.
WG_Stop_Exit(t) ==
    /\ backend = "darwinwg" /\ pc[t] = "st_exit"
    /\ onceMu' = 0
    /\ IF res[t] = "panic" THEN Return(t, "panic") ELSE StopReturn(t)
    /\ UNCHANGED <<backend, logger, listing, chanCap, filterSet,
                   filterCommands, mu, capturing, eventChannel,
                   portConn, handle, wg, onceDone>>
    /\ UNCHANGED <<nativeVars, cbVars, sinkQ>>

\* ------------------------------------------------ native callback threads

\* The bridge hands a packet to a callback thread while a connection is
\* delivering; the handler itself may start running later, also after the
\* connection was disconnected.
NativeDispatch(c) ==
    /\ cpc[c] = "idle"
    /\ IF backend = "windows" THEN startedH /= {} ELSE live /= {}
    /\ cpc' = [cpc EXCEPT ![c] = "dispatched"]
    /\ UNCHANGED <<pkt, ch>>
    /\ UNCHANGED <<sessVars, nativeVars, ownerVars, sinkQ, histVars>>

\* A Done has brought the counter to zero with waiters registered and has
\* not yet reset the state and released them.
ReleasePending == \E d \in Callbacks : cpc[d] = "h_release"

\* The process dies of a panic on a callback thread: no thread goes on.
Crash ==
    /\ pc' = [t \in Owners |-> "crashed"]
    /\ cpc' = [c \in Callbacks |-> "crashed"]
    /\ pkt' = [c \in Callbacks |-> <<>>]
    /\ ch' = [c \in Callbacks |-> 0]
    /\ UNCHANGED <<op, arg, res, nested, histVars>>

\* m.wg.Add(1).  WaitGroup.Add: `if w != 0 && delta > 0 && v == int32(delta)
\* { panic("sync: WaitGroup misuse: Add called concurrently with Wait") }`,
\* which is what an Add from zero finds while the waiters are still
\* registered.
WG_Handle_Add(c) ==
    /\ backend = "darwinwg" /\ cpc[c] = "dispatched"
    /\ wg' = wg + 1
    /\ IF ReleasePending
         THEN Crash
         ELSE /\ CbGoto(c, "h_load", <<>>, 0)
              /\ UNCHANGED <<ownerVars, histVars>>
    /\ UNCHANGED <<backend, logger, listing, chanCap, filterSet,
                   filterCommands, mu, capturing,
                   eventChannel, portConn, handle, onceDone, onceMu>>
    /\ UNCHANGED <<nativeVars, sinkQ>>

\* The event handleMIDIMessage builds from a packet of at least 3 bytes.
D_Event(p) == [Command |-> p[1], Note |-> p[2], Velocity |-> p[3]]

\* The handler leaves: with the barrier the deferred m.wg.Done() is still
\* to run.
D_HandleLeave == IF backend = "darwinwg" THEN "h_done" ELSE "idle"

\* Mutant: the length check lets packets of two bytes through.
D_Handle_Load_Len2(c, p) ==
    /\ IsDarwin /\ cpc[c] = "h_load"
    /\ CbGoto(c, IF LoadChannel = 0 THEN D_HandleLeave
                 ELSE IF Len(p) >= 2
                   THEN IF filterSet /\ ~isCommandAllowed(p[1], filterCommands)
                          THEN D_HandleLeave
                          ELSE "h_send"
                   ELSE D_HandleLeave,
              p, LoadChannel)
    /\ UNCHANGED <<sessVars, nativeVars, ownerVars, sinkQ, histVars>>

\* eventChannel, _ := m.eventChannel.Load().(chan contracts.MIDI), the nil
\* check, the length check and the filter.
\* p is the packet the bridge passed to this invocation.
D_Handle_Load(c, p) ==
    /\ IsDarwin /\ cpc[c] = "h_load"
    /\ CbGoto(c, IF LoadChannel = 0 THEN D_HandleLeave
                 ELSE IF Len(p) >= 3
                   THEN IF filterSet
                           /\ ~isCommandAllowed(D_Event(p).Command,
                                                filterCommands)
                          THEN D_HandleLeave
                          ELSE "h_send"
                   ELSE D_HandleLeave,
              p, LoadChannel)
    /\ UNCHANGED <<sessVars, nativeVars, ownerVars, sinkQ, histVars>>

\* Mutant: the handler sends its event a second time when the first send
\* went through and the channel still has room.
D_Handle_Send_Resend(c) ==
    /\ IsDarwin /\ cpc[c] = "h_send"
    /\ sinkQ' = IF CanSend(ch[c])
                  THEN [sinkQ EXCEPT ![ch[c]] =
                          IF Len(@) + 1 < chanCap[ch[c]]
                            THEN Append(Append(@, D_Event(pkt[c])),
                                        D_Event(pkt[c]))
                            ELSE Append(@, D_Event(pkt[c]))]
                  ELSE sinkQ
    /\ CbGoto(c, D_HandleLeave, pkt[c], 0)
    /\ UNCHANGED <<sessVars, nativeVars, ownerVars, histVars>>

\* select { case eventChannel <- event: default: warn }
D_Handle_Send(c) ==
    /\ IsDarwin /\ cpc[c] = "h_send"
    /\ sinkQ' = IF CanSend(ch[c])
                  THEN [sinkQ EXCEPT ![ch[c]] = Append(@, D_Event(pkt[c]))]
                  ELSE sinkQ
    /\ CbGoto(c, D_HandleLeave, pkt[c], 0)
    /\ UNCHANGED <<sessVars, nativeVars, ownerVars, histVars>>

\* Mutant: the handler leaves without m.wg.Done().
WG_Handle_Done_Skip(c) ==
    /\ backend = "darwinwg" /\ cpc[c] = "h_done"
    /\ CbGoto(c, "idle", <<>>, 0)
    /\ UNCHANGED <<sessVars, nativeVars, ownerVars, sinkQ, histVars>>

\* deferred m.wg.Done(): the counter goes down; the Done that brings it to
\* zero with waiters registered has the waiters still to release.
WG_Handle_Done(c) ==
    /\ backend = "darwinwg" /\ cpc[c] = "h_done"
    /\ wg' = wg - 1
    /\ CbGoto(c, IF wg = 1 /\ Waiters /= {} THEN "h_release" ELSE "idle",
              <<>>, 0)
    /\ UNCHANGED <<backend, logger, listing, chanCap, filterSet,
                   filterCommands, mu, capturing,
                   eventChannel, portConn, handle, onceDone, onceMu>>
    /\ UNCHANGED <<nativeVars, ownerVars, sinkQ, histVars>>

\* m.wg.Done(), the rest of WaitGroup.Add: `wg.state.Store(0)` and one
\* runtime_Semrelease per waiter, which makes the waiters runnable.
WG_Handle_Release(c) ==
    /\ backend = "darwinwg" /\ cpc[c] = "h_release"
    /\ pc' = [t \in Owners |-> IF t \in Waiters THEN "st_woken" ELSE pc[t]]
    /\ CbGoto(c, "idle", <<>>, 0)
    /\ UNCHANGED <<op, arg, res, nested, histVars>>
    /\ UNCHANGED <<sessVars, nativeVars, sinkQ>>

\* ------------------------------------------------ darwinnb: StartCapture

\* the nil check, and if m.capturing { m.Stop() }; no lock is taken
NB_StartCapture_Check(t) ==
    /\ backend = "darwinnb" /\ pc[t] = "sc_lock"
    /\ IF arg[t] = 0
         THEN Return(t, "nilChannel")
         ELSE IF capturing
           THEN /\ pc' = [pc EXCEPT ![t] = "nb_st_lock"]
                /\ nested' = [nested EXCEPT ![t] = TRUE]
                /\ UNCHANGED <<op, arg, res, histVars>>
           ELSE Goto(t, "nb_sc_store")
    /\ UNCHANGED <<sessVars, nativeVars, cbVars, sinkQ>>

\* m.eventChannel.Store(eventChannel)
NB_StartCapture_Store(t) ==
    /\ backend = "darwinnb" /\ pc[t] = "nb_sc_store"
    /\ eventChannel' = arg[t]
    /\ Goto(t, "nb_sc_set")
    /\ UNCHANGED <<backend, logger, listing, chanCap, filterSet,
                   filterCommands, mu, capturing, portConn,
                   handle, wg, onceDone, onceMu>>
    /\ UNCHANGED <<nativeVars, cbVars, sinkQ>>

\* m.capturing = true
NB_StartCapture_SetCapturing(t) ==
    /\ backend = "darwinnb" /\ pc[t] = "nb_sc_set"
    /\ capturing' = TRUE
    /\ Return(t, "started")
    /\ UNCHANGED <<backend, logger, listing, chanCap, filterSet,
                   filterCommands, mu, eventChannel,
                   portConn, handle, wg, onceDone, onceMu>>
    /\ UNCHANGED <<nativeVars, cbVars, sinkQ>>

\* ------------------------------------------- darwinnb: Stop / stopCapture

NB_Stop_Call(t) ==
    /\ Call(t, "stop", 0, "nb_st_lock")
    /\ UNCHANGED <<sessVars, nativeVars, cbVars, sinkQ>>

\* m.mu.Lock()
NB_stopCapture_Lock(t) ==
    /\ backend = "darwinnb" /\ pc[t] = "nb_st_lock" /\ mu = 0
    /\ mu' = t
    /\ Goto(t, "nb_st_disc")
    /\ UNCHANGED <<backend, logger, listing, chanCap, filterSet,
                   filterCommands, capturing, eventChannel,
                   portConn, handle, wg, onceDone, onceMu>>
    /\ UNCHANGED <<nativeVars, cbVars, sinkQ>>

\* if m.portConn != nil { m.portConn.Disconnect(); m.portConn = nil }
NB_stopCapture_Disconnect(t) ==
    /\ backend = "darwinnb" /\ pc[t] = "nb_st_disc"
    /\ IF portConn /= 0
         THEN NativeClose(portConn) /\ portConn' = 0
         ELSE UNCHANGED <<live, startedH, doubleClose, portConn>>
    /\ Goto(t, "nb_st_clear")
    /\ UNCHANGED <<backend, logger, listing, chanCap, filterSet,
                   filterCommands, mu, capturing,
                   eventChannel, handle, wg, onceDone, onceMu>>
    /\ UNCHANGED <<nextConn, cbVars, sinkQ>>

\* if m.eventChannel.Load() != nil { m.eventChannel.Store(nil);
\* m.capturing = false }; deferred m.mu.Unlock(); return nil.  A panic of
\* Store unwinds Stop and, when StartCapture called it, StartCapture too.
NB_stopCapture_Clear(t) ==
    /\ backend = "darwinnb" /\ pc[t] = "nb_st_clear"
    /\ mu' = 0
    /\ IF eventChannel /= Unset
         THEN IF StorePanics(0)
                THEN /\ Return(t, "panic")
                     /\ UNCHANGED <<eventChannel, capturing>>
                ELSE /\ eventChannel' = Unset
                     /\ capturing' = FALSE
                     /\ IF nested[t]
                          THEN /\ pc' = [pc EXCEPT ![t] = "nb_sc_store"]
                               /\ nested' = [nested EXCEPT ![t] = FALSE]
                               /\ UNCHANGED <<op, arg, res, histVars>>
                          ELSE Return(t, "ok")
         ELSE /\ UNCHANGED <<eventChannel, capturing>>
              /\ IF nested[t]
                   THEN /\ pc' = [pc EXCEPT ![t] = "nb_sc_store"]
                        /\ nested' = [nested EXCEPT ![t] = FALSE]
                        /\ UNCHANGED <<op, arg, res, histVars>>
                   ELSE Return(t, "ok")
    /\ UNCHANGED <<backend, logger, listing, chanCap, filterSet,
                   filterCommands, portConn, handle, wg,
                   onceDone, onceMu>>
    /\ UNCHANGED <<nativeVars, cbVars, sinkQ>>

\* handleMIDIMessage without the barrier starts with the Load.
NB_Handle_Enter(c) ==
    /\ backend = "darwinnb" /\ cpc[c] = "dispatched"
    /\ CbGoto(c, "h_load", <<>>, 0)
    /\ UNCHANGED <<sessVars, nativeVars, ownerVars, sinkQ, histVars>>

\* ------------------------------------------------- windows: SelectDevice

\* m.mu.Lock()
W_SelectDevice_Lock(t) ==
    /\ backend = "windows" /\ pc[t] = "sd_lock" /\ mu = 0
    /\ mu' = t
    /\ Goto(t, "w_sd_check")
    /\ UNCHANGED <<backend, logger, listing, chanCap, filterSet,
                   filterCommands, capturing, eventChannel,
                   portConn, handle, wg, onceDone, onceMu>>
    /\ UNCHANGED <<nativeVars, cbVars, sinkQ>>

\* if m.portConn { m.stopCapture() }
W_SelectDevice_Check(t) ==
    /\ backend = "windows" /\ pc[t] = "w_sd_check"
    /\ IF portConn = 1
         THEN /\ pc' = [pc EXCEPT ![t] = "w_sc_stop"]
              /\ nested' = [nested EXCEPT ![t] = TRUE]
              /\ UNCHANGED <<op, arg, res, histVars>>
         ELSE Goto(t, "w_sd_open")
    /\ UNCHANGED <<sessVars, nativeVars, cbVars, sinkQ>>

\* midiInOpen(&m.handle, deviceID, callback, m, flags); m.portConn = true
W_SelectDevice_Open(t) ==
    /\ backend = "windows" /\ pc[t] = "w_sd_open"
    /\ \E ok \in BOOLEAN :
         IF ok /\ arg[t] >= 0 /\ arg[t] < NumDevices
           THEN /\ handle' = nextConn
                /\ live' = live \cup {nextConn}
                /\ nextConn' = nextConn + 1
                /\ portConn' = 1
                /\ Return(t, "ok")
           ELSE /\ UNCHANGED <<handle, live, nextConn, portConn>>
                /\ Return(t, "ErrOpen")
    /\ mu' = 0
    /\ UNCHANGED <<backend, logger, listing, chanCap, filterSet,
                   filterCommands, capturing, eventChannel,
                   wg, onceDone, onceMu>>
    /\ UNCHANGED <<startedH, doubleClose, cbVars, sinkQ>>

\* ------------------------------------------------- windows: StartCapture

\* m.mu.Lock()
W_StartCapture_Lock(t) ==
    /\ backend = "windows" /\ pc[t] = "sc_lock" /\ mu = 0
    /\ mu' = t
    /\ Goto(t, "w_sc_check")
    /\ UNCHANGED <<backend, logger, listing, chanCap, filterSet,
                   filterCommands, capturing, eventChannel,
                   portConn, handle, wg, onceDone, onceMu>>
    /\ UNCHANGED <<nativeVars, cbVars, sinkQ>>

\* if !m.portConn { return }; if a channel is already stored { return }
W_StartCapture_Check(t) ==
    /\ backend = "windows" /\ pc[t] = "w_sc_check"
    /\ IF portConn = 0
         THEN /\ mu' = 0 /\ Return(t, "NoDeviceSelected")
         ELSE IF eventChannel /= Unset
           THEN /\ mu' = 0 /\ Return(t, "alreadyStarted")
           ELSE /\ mu' = mu /\ Goto(t, "w_sc_store")
    /\ UNCHANGED <<backend, logger, listing, chanCap, filterSet,
                   filterCommands, capturing, eventChannel,
                   portConn, handle, wg, onceDone, onceMu>>
    /\ UNCHANGED <<nativeVars, cbVars, sinkQ>>

\* m.eventChannel.Store(eventChannel); if m.handle == 0 { return }
W_StartCapture_Store(t) ==
    /\ backend = "windows" /\ pc[t] = "w_sc_store"
    /\ eventChannel' = IF arg[t] = 0 THEN NilChan ELSE arg[t]
    /\ IF handle = 0
         THEN /\ mu' = 0 /\ Return(t, "ErrInvalidHandle")
         ELSE /\ mu' = mu /\ Goto(t, "w_sc_start")
    /\ UNCHANGED <<backend, logger, listing, chanCap, filterSet,
                   filterCommands, capturing, portConn,
                   handle, wg, onceDone, onceMu>>
    /\ UNCHANGED <<nativeVars, cbVars, sinkQ>>

\* midiInStart(m.handle); deferred m.mu.Unlock()
W_StartCapture_MidiInStart(t) ==
    /\ backend = "windows" /\ pc[t] = "w_sc_start"
    /\ \E ok \in BOOLEAN :
         IF ok
           THEN /\ startedH' = startedH \cup (live \cap {handle})
                /\ Return(t, "started")
           ELSE /\ UNCHANGED startedH
                /\ Return(t, "ErrStart")
    /\ mu' = 0
    /\ UNCHANGED <<backend, logger, listing, chanCap, filterSet,
                   filterCommands, capturing, eventChannel,
                   portConn, handle, wg, onceDone, onceMu>>
    /\ UNCHANGED <<live, nextConn, doubleClose, cbVars, sinkQ>>

\* ------------------------------------------ windows: Stop / stopCapture

\* m.mu.Lock()
W_Stop_Lock(t) ==
    /\ backend = "windows" /\ pc[t] = "st_once" /\ mu = 0
    /\ mu' = t
    /\ Goto(t, "w_st_check")
    /\ UNCHANGED <<backend, logger, listing, chanCap, filterSet,
                   filterCommands, capturing, eventChannel,
                   portConn, handle, wg, onceDone, onceMu>>
    /\ UNCHANGED <<nativeVars, cbVars, sinkQ>>

\* if !m.portConn { return nil }
W_Stop_Check(t) ==
    /\ backend = "windows" /\ pc[t] = "w_st_check"
    /\ IF portConn = 0
         THEN /\ mu' = 0 /\ Return(t, "ok")
         ELSE /\ mu' = mu /\ Goto(t, "w_sc_stop")
    /\ UNCHANGED <<backend, logger, listing, chanCap, filterSet,
                   filterCommands, capturing, eventChannel,
                   portConn, handle, wg, onceDone, onceMu>>
    /\ UNCHANGED <<nativeVars, cbVars, sinkQ>>

\* stopCapture returns an error: Stop and SelectDevice wrap and return it.
W_stopCaptureFails(t) ==
    /\ mu' = 0
    /\ Return(t, IF nested[t] THEN "ErrStopPrevious" ELSE "ErrStop")

\* if m.handle == 0 { return error }; midiInStop(m.handle)
W_stopCapture_MidiInStop(t) ==
    /\ backend = "windows" /\ pc[t] = "w_sc_stop"
    /\ \E ok \in BOOLEAN :
         IF handle /= 0 /\ ok
           THEN /\ startedH' = startedH \ {handle}
                /\ mu' = mu
                /\ Goto(t, "w_sc_close")
           ELSE /\ UNCHANGED startedH
                /\ W_stopCaptureFails(t)
    /\ UNCHANGED <<backend, logger, listing, chanCap, filterSet,
                   filterCommands, capturing, eventChannel,
                   portConn, handle, wg, onceDone, onceMu>>
    /\ UNCHANGED <<live, nextConn, doubleClose, cbVars, sinkQ>>

\* midiInClose(m.handle)
W_stopCapture_MidiInClose(t) ==
    /\ backend = "windows" /\ pc[t] = "w_sc_close"
    /\ \E ok \in BOOLEAN :
         IF ok
           THEN /\ NativeClose(handle)
                /\ mu' = mu
                /\ Goto(t, "w_sc_clear")
           ELSE /\ UNCHANGED <<live, startedH, doubleClose>>
                /\ W_stopCaptureFails(t)
    /\ UNCHANGED <<backend, logger, listing, chanCap, filterSet,
                   filterCommands, capturing, eventChannel,
                   portConn, handle, wg, onceDone, onceMu>>
    /\ UNCHANGED <<nextConn, cbVars, sinkQ>>

\* m.portConn = false; m.handle = 0; m.eventChannel.Store(nil); return nil.
\* A panic of Store unwinds through the caller's deferred m.mu.Unlock().
W_stopCapture_Clear(t) ==
    /\ backend = "windows" /\ pc[t] = "w_sc_clear"
    /\ portConn' = 0
    /\ handle' = 0
    /\ IF StorePanics(0)
         THEN /\ mu' = 0
              /\ Return(t, "panic")
              /\ UNCHANGED eventChannel
         ELSE /\ eventChannel' = Unset
              /\ IF nested[t]
                   THEN /\ mu' = mu
                        /\ pc' = [pc EXCEPT ![t] = "w_sd_open"]
                        /\ nested' = [nested EXCEPT ![t] = FALSE]
                        /\ UNCHANGED <<op, arg, res, histVars>>
                   ELSE /\ mu' = 0 /\ Return(t, "ok")
    /\ UNCHANGED <<backend, logger, listing, chanCap, filterSet,
                   filterCommands, capturing, wg, onceDone,
                   onceMu>>
    /\ UNCHANGED <<nativeVars, cbVars, sinkQ>>

\* ----------------------------------------------- windows: midiInCallback

\* Messages the driver passes: wMsg, dwParam1 (status | data1<<8 | data2<<16)
\* and dwParam2 (the driver's timestamp).
WinMsgs ==
    { [wMsg |-> MIM_DATA, dwParam1 |-> 144 + 60 * 256 + 100 * 65536, dwParam2 |-> 1],
      [wMsg |-> MIM_DATA, dwParam1 |-> 128 + 60 * 256, dwParam2 |-> 1],
      [wMsg |-> MIM_DATA, dwParam1 |-> 145 + 60 * 256 + 100 * 65536, dwParam2 |-> 1],
      [wMsg |-> MIM_DATA, dwParam1 |-> 144 + 60 * 256 + 100 * 65536, dwParam2 |-> 0],
      [wMsg |-> MIM_OPEN, dwParam1 |-> 0, dwParam2 |-> 0] }

\* status := byte(dwParam1 & 0xFF) ... command := status & 0xF0
W_Event(m) ==
    LET status == m.dwParam1 % 256
        data1  == (m.dwParam1 \div 256) % 256
        data2  == (m.dwParam1 \div 65536) % 256
    IN  [Command |-> status - (status % 16), Note |-> data1, Velocity |-> data2]

W_Callback_Enter(c) ==
    /\ backend = "windows" /\ cpc[c] = "dispatched"
    /\ CbGoto(c, "h_load", <<>>, 0)
    /\ UNCHANGED <<sessVars, nativeVars, ownerVars, sinkQ, histVars>>

\* case MIM_DATA: the dwParam2 check, the decoding, the filter and
\* m.eventChannel.Load().(chan contracts.MIDI)
W_Callback_Load(c, m) ==
    /\ backend = "windows" /\ cpc[c] = "h_load"
    /\ CbGoto(c, IF m.wMsg /= MIM_DATA THEN "idle"
                 ELSE IF m.dwParam2 = 0 THEN "idle"
                 ELSE IF filterSet
                         /\ ~isCommandAllowed(W_Event(m).Command, filterCommands)
                   THEN "idle"
                 ELSE IF LoadChannel = 0 THEN "idle"
                 ELSE "h_send",
              W_Event(m), LoadChannel)
    /\ UNCHANGED <<sessVars, nativeVars, ownerVars, sinkQ, histVars>>

\* select { case ch <- midiEvent: default: warn }
W_Callback_Send(c) ==
    /\ backend = "windows" /\ cpc[c] = "h_send"
    /\ sinkQ' = IF CanSend(ch[c])
                  THEN [sinkQ EXCEPT ![ch[c]] = Append(@, pkt[c])]
                  ELSE sinkQ
    /\ CbGoto(c, "idle", <<>>, 0)
    /\ UNCHANGED <<sessVars, nativeVars, ownerVars, histVars>>

\* The application receives one event from its channel.
Drain(s) ==
    /\ sinkQ[s] /= <<>>
    /\ sinkQ' = [sinkQ EXCEPT ![s] = Tail(@)]
    /\ UNCHANGED <<sessVars, nativeVars, ownerVars, cbVars, histVars>>

\* ------------------------------------------------------- specifications

\* Two application threads: the main one selects and starts (with nil or with
\* its channel 1), either one stops; the bridge delivers at any time.
NextWG ==
    \/ \E id \in DeviceIds : SelectDevice_Call(MainOwner, id)
    \/ \E s \in {0, 1} : StartCapture_Call(MainOwner, s)
    \/ \E t \in Owners : Stop_Call(t)
    \/ \E t \in Owners : D_SelectDevice_Lock(t)
    \/ \E t \in Owners : D_SelectDevice_Sources(t)
    \/ \E t \in Owners : D_SelectDevice_Disconnect(t)
    \/ \E t \in Owners : D_SelectDevice_NewInputPort(t)
    \/ \E t \in Owners : D_SelectDevice_Connect(t)
    \/ \E t \in Owners : WG_StartCapture_Lock(t)
    \/ \E t \in Owners : WG_StartCapture_Check(t)
    \/ \E t \in Owners : WG_StartCapture_Store(t)
    \/ \E t \in Owners : WG_Stop_Once(t)
    \/ \E t \in Owners : WG_Stop_OnceLock(t)
    \/ \E t \in Owners : WG_Stop_Lock(t)
    \/ \E t \in Owners : WG_Stop_Check(t)
    \/ \E t \in Owners : WG_Stop_Disconnect(t)
    \/ \E t \in Owners : WG_Stop_StoreDummy(t)
    \/ \E t \in Owners : WG_Stop_Wait(t)
    \/ \E t \in Owners : WG_Stop_Woken(t)
    \/ \E t \in Owners : WG_Stop_Unlock(t)
    \/ \E t \in Owners : WG_Stop_OnceDone(t)
    \/ \E t \in Owners : WG_Stop_Exit(t)
    \/ \E c \in Callbacks : NativeDispatch(c)
    \/ \E c \in Callbacks : WG_Handle_Add(c)
    \/ \E c \in Callbacks, p \in Packets : D_Handle_Load(c, p)
    \/ \E c \in Callbacks : D_Handle_Send(c)
    \/ \E c \in Callbacks : WG_Handle_Done(c)
    \/ \E c \in Callbacks : WG_Handle_Release(c)
    \/ \E s \in Sinks : Drain(s)
    \/ \E t \in Owners : OwnerFinish(t)

SpecWG == InitWG /\ [][NextWG]_vars

NextNB ==
    \/ \E id \in DeviceIds : SelectDevice_Call(MainOwner, id)
    \/ \E s \in Sinks \cup {0} : StartCapture_Call(MainOwner, s)
    \/ \E t \in Owners : NB_Stop_Call(t)
    \/ \E t \in Owners : D_SelectDevice_Lock(t)
    \/ \E t \in Owners : D_SelectDevice_Sources(t)
    \/ \E t \in Owners : D_SelectDevice_Disconnect(t)
    \/ \E t \in Owners : D_SelectDevice_NewInputPort(t)
    \/ \E t \in Owners : D_SelectDevice_Connect(t)
    \/ \E t \in Owners : NB_StartCapture_Check(t)
    \/ \E t \in Owners : NB_StartCapture_Store(t)
    \/ \E t \in Owners : NB_StartCapture_SetCapturing(t)
    \/ \E t \in Owners : NB_stopCapture_Lock(t)
    \/ \E t \in Owners : NB_stopCapture_Disconnect(t)
    \/ \E t \in Owners : NB_stopCapture_Clear(t)
    \/ \E c \in Callbacks : NativeDispatch(c)
    \/ \E c \in Callbacks : NB_Handle_Enter(c)
    \/ \E c \in Callbacks, p \in Packets : D_Handle_Load(c, p)
    \/ \E c \in Callbacks : D_Handle_Send(c)
    \/ \E s \in Sinks : Drain(s)
    \/ \E t \in Owners : OwnerFinish(t)

SpecNB == InitNB /\ [][NextNB]_vars

NextWin ==
    \/ \E id \in DeviceIds : SelectDevice_Call(MainOwner, id)
    \/ \E s \in Sinks \cup {0} : StartCapture_Call(MainOwner, s)
    \/ \E t \in Owners : Stop_Call(t)
    \/ \E t \in Owners : W_SelectDevice_Lock(t)
    \/ \E t \in Owners : W_SelectDevice_Check(t)
    \/ \E t \in Owners : W_SelectDevice_Open(t)
    \/ \E t \in Owners : W_StartCapture_Lock(t)
    \/ \E t \in Owners : W_StartCapture_Check(t)
    \/ \E t \in Owners : W_StartCapture_Store(t)
    \/ \E t \in Owners : W_StartCapture_MidiInStart(t)
    \/ \E t \in Owners : W_Stop_Lock(t)
    \/ \E t \in Owners : W_Stop_Check(t)
    \/ \E t \in Owners : W_stopCapture_MidiInStop(t)
    \/ \E t \in Owners : W_stopCapture_MidiInClose(t)
    \/ \E t \in Owners : W_stopCapture_Clear(t)
    \/ \E c \in Callbacks : NativeDispatch(c)
    \/ \E c \in Callbacks : W_Callback_Enter(c)
    \/ \E c \in Callbacks, m \in WinMsgs : W_Callback_Load(c, m)
    \/ \E c \in Callbacks : W_Callback_Send(c)
    \/ \E s \in Sinks : Drain(s)
    \/ \E t \in Owners : OwnerFinish(t)

SpecWin == InitWin /\ [][NextWin]_vars

Init == backend \in {"darwinwg", "darwinnb", "windows"} /\ Init0
Next == NextWG \/ NextNB \/ NextWin
Spec == Init /\ [][Next]_vars

\* The owner keeps to the call sequences `life` follows.
Life_SelectDevice_Call(id) ==
    /\ LifeOnCall("select", id) /= "off"
    /\ SelectDevice_Call(MainOwner, id)

Life_StartCapture_Call(s) ==
    /\ LifeOnCall("start", s) /= "off"
    /\ StartCapture_Call(MainOwner, s)

Life_Stop_Call ==
    /\ LifeOnCall("stop", 0) /= "off"
    /\ Stop_Call(MainOwner)

NextWGLife ==
    \/ \E id \in DeviceIds : Life_SelectDevice_Call(id)
    \/ \E s \in Sinks \cup {0} : Life_StartCapture_Call(s)
    \/ Life_Stop_Call
    \/ \E t \in Owners : D_SelectDevice_Lock(t)
    \/ \E t \in Owners : D_SelectDevice_Sources(t)
    \/ \E t \in Owners : D_SelectDevice_Disconnect(t)
    \/ \E t \in Owners : D_SelectDevice_NewInputPort(t)
    \/ \E t \in Owners : D_SelectDevice_Connect(t)
    \/ \E t \in Owners : WG_StartCapture_Lock(t)
    \/ \E t \in Owners : WG_StartCapture_Check(t)
    \/ \E t \in Owners : WG_StartCapture_Store(t)
    \/ \E t \in Owners : WG_Stop_Once(t)
    \/ \E t \in Owners : WG_Stop_OnceLock(t)
    \/ \E t \in Owners : WG_Stop_Lock(t)
    \/ \E t \in Owners : WG_Stop_Check(t)
    \/ \E t \in Owners : WG_Stop_Disconnect(t)
    \/ \E t \in Owners : WG_Stop_StoreDummy(t)
    \/ \E t \in Owners : WG_Stop_Wait(t)
    \/ \E t \in Owners : WG_Stop_Woken(t)
    \/ \E t \in Owners : WG_Stop_Unlock(t)
    \/ \E t \in Owners : WG_Stop_OnceDone(t)
    \/ \E t \in Owners : WG_Stop_Exit(t)
    \/ \E c \in Callbacks : NativeDispatch(c)
    \/ \E c \in Callbacks : WG_Handle_Add(c)
    \/ \E c \in Callbacks, p \in Packets : D_Handle_Load(c, p)
    \/ \E c \in Callbacks : D_Handle_Send(c)
    \/ \E c \in Callbacks : WG_Handle_Done(c)
    \/ \E c \in Callbacks : WG_Handle_Release(c)
    \/ \E s \in Sinks : Drain(s)
    \/ \E t \in Owners : OwnerFinish(t)

SpecWGLife == InitWG /\ [][NextWGLife]_vars

\* ---------------------------------------------------------- ListDevices

ListDevices_Call(t) ==
    /\ Call(t, "list", 0, "ld_sources")
    /\ UNCHANGED <<sessVars, nativeVars, cbVars, sinkQ>>

\* Mutant: an empty list of endpoints is returned as a success.
ListDevices_EmptyOk(t, n, ok) ==
    /\ backend \in {"darwinwg", "darwinnb", "windows"}
    /\ pc[t] = "ld_sources"
    /\ Return(t, IF IsDarwin /\ ~ok THEN "ErrSources" ELSE "ok")
    /\ UNCHANGED <<sessVars, nativeVars, cbVars, sinkQ>>

\* ListDevices: the platform reports n endpoints (ok = FALSE: darwin's
\* AllSources fails); zero endpoints is the no-devices error, otherwise the
\* list is built and returned.  No lock is taken and no field is written.
ListDevices(t, n, ok) ==
    /\ backend \in {"darwinwg", "darwinnb", "windows"}
    /\ pc[t] = "ld_sources"
    /\ Return(t, IF IsDarwin /\ ~ok THEN "ErrSources"
                 ELSE IF n = 0 THEN "ErrNoMIDIDevices"
                 ELSE "ok")
    /\ UNCHANGED <<sessVars, nativeVars, cbVars, sinkQ>>

\* The owner's calls with ListDevices among them, no callbacks.
NextWGList ==
    \/ \E id \in DeviceIds : Life_SelectDevice_Call(id)
    \/ \E s \in Sinks \cup {0} : Life_StartCapture_Call(s)
    \/ Life_Stop_Call
    \/ ListDevices_Call(MainOwner)
    \/ \E t \in Owners, n \in 0..NumDevices, ok \in BOOLEAN : ListDevices(t, n, ok)
    \/ \E t \in Owners : D_SelectDevice_Lock(t)
    \/ \E t \in Owners : D_SelectDevice_Sources(t)
    \/ \E t \in Owners : D_SelectDevice_Disconnect(t)
    \/ \E t \in Owners : D_SelectDevice_NewInputPort(t)
    \/ \E t \in Owners : D_SelectDevice_Connect(t)
    \/ \E t \in Owners : WG_StartCapture_Lock(t)
    \/ \E t \in Owners : WG_StartCapture_Check(t)
    \/ \E t \in Owners : WG_StartCapture_Store(t)
    \/ \E t \in Owners : WG_Stop_Once(t)
    \/ \E t \in Owners : WG_Stop_OnceLock(t)
    \/ \E t \in Owners : WG_Stop_Lock(t)
    \/ \E t \in Owners : WG_Stop_Check(t)
    \/ \E t \in Owners : WG_Stop_Disconnect(t)
    \/ \E t \in Owners : WG_Stop_StoreDummy(t)
    \/ \E t \in Owners : WG_Stop_Wait(t)
    \/ \E t \in Owners : WG_Stop_Unlock(t)
    \/ \E t \in Owners : WG_Stop_OnceDone(t)
    \/ \E t \in Owners : WG_Stop_Exit(t)
    \/ \E t \in Owners : OwnerFinish(t)

SpecWGList == InitWG /\ [][NextWGList]_vars

\* ------------------------------------------------ serialized callbacks

\* The packets the bridge may hand over; as the k-th delivery a packet
\* carries the position k of the native delivery sequence in its note byte.
SerialPackets == {<<NoteOn, 0, 100>>, <<NoteOff, 0, 0>>, <<NoteOn, 0>>}
SerialPacket(p, k) == [p EXCEPT ![2] = k]

\* The owner's calls of the serialized scenario: SelectDevice on the new
\* client, StartCapture(1) on the selected one.
Serial_SelectDevice_Call(id) ==
    /\ life = "new"
    /\ Life_SelectDevice_Call(id)

Serial_StartCapture_Call ==
    /\ life = "selected"
    /\ Life_StartCapture_Call(1)

\* The bridge hands the next packet of the delivery sequence to a callback
\* thread, one invocation at a time: no other invocation is pending.
Serial_Dispatch(c, p) ==
    /\ backend = "darwinwg"
    /\ \A d \in Callbacks : cpc[d] = "idle"
    /\ live /= {}
    /\ delivered < MaxDeliveries
    /\ delivered' = delivered + 1
    /\ cpc' = [cpc EXCEPT ![c] = "dispatched"]
    /\ pkt' = [pkt EXCEPT ![c] = SerialPacket(p, delivered + 1)]
    /\ UNCHANGED <<ch, life, stopReturned>>
    /\ UNCHANGED <<sessVars, nativeVars, ownerVars, sinkQ>>

\* m.wg.Add(1), the packet argument is kept; with one invocation at a time
\* no Done is releasing waiters when a handler starts
Serial_Handle_Add(c) ==
    /\ backend = "darwinwg" /\ cpc[c] = "dispatched"
    /\ ~ReleasePending
    /\ wg' = wg + 1
    /\ cpc' = [cpc EXCEPT ![c] = "h_load"]
    /\ UNCHANGED <<pkt, ch>>
    /\ UNCHANGED <<backend, logger, listing, chanCap, filterSet,
                   filterCommands, mu, capturing,
                   eventChannel, portConn, handle, onceDone, onceMu>>
    /\ UNCHANGED <<nativeVars, ownerVars, sinkQ, histVars>>

\* the load, the nil check, the length check and the filter on the packet
\* the invocation was handed
Serial_Handle_Load(c) == D_Handle_Load(c, pkt[c])

\* SelectDevice, StartCapture(1) and Stop() once each, with the bridge
\* delivering MaxDeliveries packets one callback at a time.
NextSerial ==
    \/ \E id \in DeviceIds : Serial_SelectDevice_Call(id)
    \/ Serial_StartCapture_Call
    \/ Life_Stop_Call
    \/ \E t \in Owners : D_SelectDevice_Lock(t)
    \/ \E t \in Owners : D_SelectDevice_Sources(t)
    \/ \E t \in Owners : D_SelectDevice_Disconnect(t)
    \/ \E t \in Owners : D_SelectDevice_NewInputPort(t)
    \/ \E t \in Owners : D_SelectDevice_Connect(t)
    \/ \E t \in Owners : WG_StartCapture_Lock(t)
    \/ \E t \in Owners : WG_StartCapture_Check(t)
    \/ \E t \in Owners : WG_StartCapture_Store(t)
    \/ \E t \in Owners : WG_Stop_Once(t)
    \/ \E t \in Owners : WG_Stop_OnceLock(t)
    \/ \E t \in Owners : WG_Stop_Lock(t)
    \/ \E t \in Owners : WG_Stop_Check(t)
    \/ \E t \in Owners : WG_Stop_Disconnect(t)
    \/ \E t \in Owners : WG_Stop_StoreDummy(t)
    \/ \E t \in Owners : WG_Stop_Wait(t)
    \/ \E t \in Owners : WG_Stop_Woken(t)
    \/ \E t \in Owners : WG_Stop_Unlock(t)
    \/ \E t \in Owners : WG_Stop_OnceDone(t)
    \/ \E t \in Owners : WG_Stop_Exit(t)
    \/ \E c \in Callbacks, p \in SerialPackets : Serial_Dispatch(c, p)
    \/ \E c \in Callbacks : Serial_Handle_Add(c)
    \/ \E c \in Callbacks : Serial_Handle_Load(c)
    \/ \E c \in Callbacks : D_Handle_Send(c)
    \/ \E c \in Callbacks : WG_Handle_Done(c)
    \/ \E c \in Callbacks : WG_Handle_Release(c)
    \/ \E s \in Sinks : Drain(s)
    \/ \E t \in Owners : OwnerFinish(t)

\* The serialized scenario: the application's channel 1 has room for one
\* event or for two.
InitSerial ==
    /\ backend = "darwinwg"
    /\ InitFields
    /\ logger = DefaultLogger
    /\ listing = NoListing
    /\ chanCap \in {[DefaultCaps EXCEPT ![1] = n] : n \in SinkCap..(SinkCap + 1)}

SpecSerial == InitSerial /\ [][NextSerial]_vars

\* ------------------------------------- Stop() racing with the callbacks

\* The steps of a Stop() call in progress.
StopSteps ==
    \E t \in Owners :
      \/ WG_Stop_Once(t)
      \/ WG_Stop_OnceLock(t)
      \/ WG_Stop_Lock(t)
      \/ WG_Stop_Check(t)
      \/ WG_Stop_Disconnect(t)
      \/ WG_Stop_StoreDummy(t)
      \/ WG_Stop_Wait(t)
      \/ WG_Stop_Woken(t)
      \/ WG_Stop_Unlock(t)
      \/ WG_Stop_OnceDone(t)
      \/ WG_Stop_Exit(t)

\* The steps of the handler invocation running on callback thread c.
CallbackSteps(c) ==
    \/ WG_Handle_Add(c)
    \/ \E p \in Packets : D_Handle_Load(c, p)
    \/ D_Handle_Send(c)
    \/ WG_Handle_Done(c)
    \/ WG_Handle_Release(c)

\* SelectDevice, StartCapture(1) and Stop(), one after the other, with the
\* callbacks running concurrently.
NextWGStop ==
    \/ \E id \in DeviceIds : Serial_SelectDevice_Call(id)
    \/ Serial_StartCapture_Call
    \/ Life_Stop_Call
    \/ \E t \in Owners : D_SelectDevice_Lock(t)
    \/ \E t \in Owners : D_SelectDevice_Sources(t)
    \/ \E t \in Owners : D_SelectDevice_Disconnect(t)
    \/ \E t \in Owners : D_SelectDevice_NewInputPort(t)
    \/ \E t \in Owners : D_SelectDevice_Connect(t)
    \/ \E t \in Owners : WG_StartCapture_Lock(t)
    \/ \E t \in Owners : WG_StartCapture_Check(t)
    \/ \E t \in Owners : WG_StartCapture_Store(t)
    \/ StopSteps
    \/ \E c \in Callbacks : NativeDispatch(c)
    \/ \E c \in Callbacks : CallbackSteps(c)
    \/ \E s \in Sinks : Drain(s)
    \/ \E t \in Owners : OwnerFinish(t)

\* The Go scheduler lets a goroutine that can run make its next step: the
\* Stop() call and every handler invocation keep running.  Nothing obliges the
\* owner to make a call, the bridge to deliver or the application to receive.
SpecWGStopLive ==
    /\ InitWG
    /\ [][NextWGStop]_vars
    /\ WF_vars(StopSteps)
    /\ \A c \in Callbacks : WF_vars(CallbackSteps(c))

\* -------------------------------------------------------------- logger

\* How severe a level is, from the descriptions of the LogLevel constants:
\* debug, informational, potentially harmful, error, fatal.
Severity(l) ==
    CASE l = DebugLevel -> 0
      [] l = InfoLevel  -> 1
      [] l = WarnLevel  -> 2
      [] l = ErrorLevel -> 3
      [] l = FatalLevel -> 4

\* StandardLogger.log, `switch s.dest`: the console always takes the line, a
\* file destination only when s.file is set (otherwise an error line goes to
\* stderr in place of the message).  ZapLogger has no destination.
DestinationTakes(lg) ==
    \/ lg.kind = "zap"
    \/ lg.dest = ConsoleLog
    \/ lg.dest = FileLog /\ lg.file

\* The level test of log().  StandardLogger: `if s.logLevel > level {
\* return }` on the LogLevel numbers.  ZapLogger: `if z.level >
\* contracts.LogLevel(level) { return }`, its LogLevel against the zapcore
\* number of the message.
LevelPasses(lg, sev) ==
    IF lg.kind = "standard"
      THEN ~(lg.level > sev)
      ELSE ~(lg.level > ZapLevel(sev))

\* StandardLogger.log writes the line when the level test passes and the
\* destination takes it.
LoggerEmits(lg, sev) == LevelPasses(lg, sev) /\ DestinationTakes(lg)

\* ZapLogger.log hands the line to a zap.NewProduction() logger, which writes
\* Info and above.
ZapWrites(sev) == ZapLevel(sev) >= 0

\* What SetDestination can be called with: a destination, and for the file
\* path "none" (not given), "opens" or "fails" (os.OpenFile's result).
LogDestinations == {ConsoleLog, FileLog, "other"}
FilePaths == {"none", "opens", "fails"}

\* SetDestination(dest, filePath...): ZapLogger's is empty.  StandardLogger's
\* closes and forgets the previous file, then switches: ConsoleLog is taken;
\* FileLog is taken together with the file only when a path was given and
\* opened; anything else leaves s.dest as it was.
Logger_SetDestination(dest, path) ==
    /\ ~logger.exited
    /\ logger' =
         IF logger.kind = "zap" THEN logger
         ELSE [logger EXCEPT
                 !.file = (dest = FileLog /\ path = "opens"),
                 !.dest = IF dest = ConsoleLog THEN ConsoleLog
                          ELSE IF dest = FileLog /\ path = "opens" THEN FileLog
                          ELSE @]
    /\ UNCHANGED <<backend, listing, chanCap, filterSet, filterCommands, mu, capturing,
                   eventChannel, portConn, handle, wg, onceDone, onceMu>>
    /\ UNCHANGED <<nativeVars, ownerVars, cbVars, sinkQ, histVars>>

\* SetLevel(level)
Logger_SetLevel(l) ==
    /\ ~logger.exited
    /\ logger' = [logger EXCEPT !.level = l]
    /\ UNCHANGED <<backend, listing, chanCap, filterSet, filterCommands, mu, capturing,
                   eventChannel, portConn, handle, wg, onceDone, onceMu>>
    /\ UNCHANGED <<nativeVars, ownerVars, cbVars, sinkQ, histVars>>

\* Info / Debug / Error / Warn / Fatal: the call of log().
\* StandardLogger.log tests the level and writes under s.mu.RLock(), which
\* SetLevel and SetDestination exclude.  ZapLogger.log takes no lock: this
\* step is its read of z.level and the test, the write comes later, and a
\* SetLevel may fall in between.  Fatal has its os.Exit(1) still to come;
\* until then other goroutines go on logging.
Logger_Log(sev) ==
    /\ ~logger.exited
    /\ logger.calls < MaxLogCalls
    /\ logger' =
         IF logger.kind = "standard"
           THEN [logger EXCEPT
                   !.calls = @ + 1,
                   !.out = IF LoggerEmits(logger, sev) THEN Append(@, sev)
                           ELSE @,
                   !.exiting = (@ \/ sev = FatalLevel)]
           ELSE IF LevelPasses(logger, sev)
             THEN [logger EXCEPT !.calls = @ + 1,
                                 !.pending = Append(@, sev)]
             ELSE [logger EXCEPT !.calls = @ + 1,
                                 !.exiting = (@ \/ sev = FatalLevel)]
    /\ UNCHANGED <<backend, listing, chanCap, filterSet, filterCommands, mu,
                   capturing, eventChannel, portConn, handle, wg, onceDone,
                   onceMu>>
    /\ UNCHANGED <<nativeVars, ownerVars, cbVars, sinkQ, histVars>>

\* ZapLogger.log, `switch level`: a call that passed the level test hands
\* its line to zap; calls of different goroutines write in any order.
Logger_Write(i) ==
    /\ ~logger.exited
    /\ logger.kind = "zap"
    /\ i \in 1..Len(logger.pending)
    /\ LET sev == logger.pending[i]
       IN  logger' = [logger EXCEPT
                        !.pending = SubSeq(@, 1, i - 1)
                                      \o SubSeq(@, i + 1, Len(@)),
                        !.out = IF ZapWrites(sev) THEN Append(@, sev) ELSE @,
                        !.exiting = (@ \/ sev = FatalLevel)]
    /\ UNCHANGED <<backend, listing, chanCap, filterSet, filterCommands, mu,
                   capturing, eventChannel, portConn, handle, wg, onceDone,
                   onceMu>>
    /\ UNCHANGED <<nativeVars, ownerVars, cbVars, sinkQ, histVars>>

\* Fatal, after log() has returned: os.Exit(1) (ZapLogger's line has gone
\* through zap's own Fatal, which exits once the line is written).
Logger_Exit ==
    /\ logger.exiting /\ ~logger.exited
    /\ logger' = [logger EXCEPT !.exited = TRUE]
    /\ UNCHANGED <<backend, listing, chanCap, filterSet, filterCommands, mu, capturing,
                   eventChannel, portConn, handle, wg, onceDone, onceMu>>
    /\ UNCHANGED <<nativeVars, ownerVars, cbVars, sinkQ, histVars>>

\* Either logger implementation, as one of the constructors returns it.
InitLog ==
    /\ backend = "darwinwg"
    /\ InitFields
    /\ logger \in {NewLogger("zap"), NewLogger("standard")}
                    \cup {NewFileLogger(f) : f \in BOOLEAN}
    /\ listing = NoListing
    /\ chanCap = DefaultCaps

NextLog ==
    \/ \E l \in LogLevels : Logger_SetLevel(l)
    \/ \E dest \in LogDestinations, path \in FilePaths :
         Logger_SetDestination(dest, path)
    \/ \E sev \in LogLevels : Logger_Log(sev)
    \/ \E i \in 1..MaxLogCalls : Logger_Write(i)
    \/ Logger_Exit

SpecLog == InitLog /\ [][NextLog]_vars

\* ------------------------------------------- the list ListDevices returns

\* The platform's endpoint tables: up to NumDevices distinct endpoints in
\* native index order; capsOk tells whether midiInGetDevCaps succeeds for the
\* endpoint (windows; coremidi's name queries have no failure result).
EndpointTables ==
    {tb \in UNION {[1..n -> [id : 1..NumDevices, capsOk : BOOLEAN]] :
                      n \in 0..NumDevices} :
       \A i, j \in DOMAIN tb : tb[i].id = tb[j].id => i = j}

\* contracts.DeviceInfo of an endpoint, and the zero DeviceInfo{}.
Descriptor(e) == [Name |-> e, EntityName |-> e]
ZeroDescriptor == [Name |-> 0, EntityName |-> 0]

\* Mutant: descriptors are appended, an endpoint whose query fails is left out.
DeviceList_Append(b, tb) ==
    IF b = "windows"
      THEN LET ok == SelectSeq(tb, LAMBDA e : e.capsOk)
           IN  [i \in 1..Len(ok) |-> Descriptor(ok[i].id)]
      ELSE [i \in 1..Len(tb) |-> Descriptor(tb[i].id)]

\* devices := make([]contracts.DeviceInfo, n); devices[i] = DeviceInfo{...};
\* on windows an endpoint whose midiInGetDevCaps fails is skipped by
\* `continue`, which leaves devices[i] the zero value.
DeviceList(b, tb) ==
    IF b = "windows"
      THEN [i \in 1..Len(tb) |-> IF tb[i].capsOk THEN Descriptor(tb[i].id)
                                 ELSE ZeroDescriptor]
      ELSE [i \in 1..Len(tb) |-> Descriptor(tb[i].id)]

\* ListDevices() as one step.  darwin: coremidi.AllSources() fails
\* (ok = FALSE) and the call returns that error; windows has no such branch
\* (midiInGetNumDevs returns a number only).  Then the error for an empty
\* table, else the list.  No field of the client is written.
DevList_ListDevices(ok) ==
    /\ listing.res = "none"
    /\ listing' = IF IsDarwin /\ ~ok
                    THEN [listing EXCEPT !.res = "ErrSources"]
                    ELSE IF Len(listing.native) = 0
                    THEN [listing EXCEPT !.res = "ErrNoMIDIDevices"]
                    ELSE [listing EXCEPT !.res = "ok",
                                         !.list = DeviceList(backend,
                                                            listing.native)]
    /\ UNCHANGED <<backend, logger, chanCap, filterSet, filterCommands, mu, capturing,
                   eventChannel, portConn, handle, wg, onceDone, onceMu>>
    /\ UNCHANGED <<nativeVars, ownerVars, cbVars, sinkQ, histVars>>

\* What the native calls of SelectDevice can answer: AllSources fails,
\* NewInputPort fails, Connect / midiInOpen fails, or all succeed.
SelectOutcomes == {"sourcesFail", "portFail", "openFail", "ok"}

\* The result of SelectDevice(id) on a client that has no connection yet.
\* darwin: AllSources, the range check of deviceID, NewInputPort, Connect.
\* windows: midiInOpen alone, which fails for an index outside the table.
SelectResult(b, tb, id, out) ==
    IF b = "windows"
      THEN IF out = "ok" /\ id >= 0 /\ id < Len(tb) THEN "ok" ELSE "ErrOpen"
      ELSE IF out = "sourcesFail" THEN "ErrSources"
      ELSE IF id < 0 \/ id >= Len(tb) THEN "ErrInvalidMIDIDevice"
      ELSE IF out = "portFail" THEN "ErrCreateInputPort"
      ELSE IF out = "openFail" THEN "ErrMIDIConnectionError"
      ELSE "ok"

\* SelectDevice(id) as one step, the first on a new client (m.portConn is
\* nil / false, so nothing is disconnected first): darwin connects
\* sources[deviceID] and assigns m.portConn, also from a failed Connect;
\* windows opens the endpoint of native index deviceID into m.handle and
\* sets m.portConn = true; a failure before that opens nothing.
DevList_SelectDevice(id, out) ==
    /\ listing.selRes = "none" /\ mu = 0 /\ portConn = 0
    /\ nextConn <= MaxConns
    /\ LET r == SelectResult(backend, listing.native, id, out)
       IN  /\ listing' = [listing EXCEPT
                            !.sel = id,
                            !.selRes = r,
                            !.opened = IF r = "ok"
                                         THEN listing.native[id + 1].id
                                         ELSE 0]
           /\ IF r = "ok"
                THEN /\ live' = live \cup {nextConn}
                     /\ nextConn' = nextConn + 1
                     /\ IF backend = "windows"
                          THEN handle' = nextConn /\ portConn' = 1
                          ELSE handle' = handle /\ portConn' = nextConn
                ELSE /\ UNCHANGED <<live, nextConn, handle>>
                     /\ portConn' = IF r = "ErrMIDIConnectionError"
                                      THEN DeadConn ELSE portConn
    /\ UNCHANGED <<backend, logger, chanCap, filterSet, filterCommands, mu,
                   capturing, eventChannel, wg, onceDone, onceMu>>
    /\ UNCHANGED <<startedH, doubleClose, ownerVars, cbVars, sinkQ, histVars>>

\* A new client of either platform and an endpoint table that stays as it is.
InitDevList ==
    /\ backend \in {"darwinwg", "darwinnb", "windows"}
    /\ InitFields
    /\ logger = DefaultLogger
    /\ chanCap = DefaultCaps
    /\ \E tb \in EndpointTables :
         /\ IsDarwin => \A i \in DOMAIN tb : tb[i].capsOk
         /\ listing = [NoListing EXCEPT !.native = tb]

NextDevList ==
    \/ \E ok \in BOOLEAN : DevList_ListDevices(ok)
    \/ \E id \in DeviceIds, out \in SelectOutcomes :
         DevList_SelectDevice(id, out)

SpecDevList == InitDevList /\ [][NextDevList]_vars

\* ------------------------------------------- client factory and stubs

\* Values of runtime.GOOS the factory may see.
GOOS == {"darwin", "windows", "linux", "freebsd"}

\* Mutant: an unknown OS falls back to a stub client.
NewClient_Fallback(goos) ==
    IF goos = "darwin" THEN "darwinwg"
    ELSE IF goos = "windows" THEN "windows"
    ELSE "darwinstub"

\* NewClient: the initializer registered for runtime.GOOS, else
\* (nil, ErrUnsupportedOS), written "none".
NewClient(goos) ==
    IF goos = "darwin" THEN "darwinwg"
    ELSE IF goos = "windows" THEN "windows"
    ELSE "none"

\* The stub packages a build for goos contains: mididarwin's is compiled
\* with !darwin, midiwindows's with !windows.
StubsBuiltOn(goos) ==
    (IF goos /= "darwin" THEN {"darwinstub"} ELSE {})
      \cup (IF goos /= "windows" THEN {"windowsstub"} ELSE {})

IsStub == backend \in {"darwinstub", "windowsstub"}

\* A host that is neither darwin nor windows: the factory's result, or a
\* stub client made by calling a stub package's NewMIDIClient directly.
InitStub ==
    /\ \E goos \in GOOS \ {"darwin", "windows"} :
         backend \in {NewClient(goos)} \cup StubsBuiltOn(goos)
    /\ Init0

\* An owner thread calls an operation of the stub client.
Stub_Call(t, o, a) ==
    /\ IsStub
    /\ Call(t, o, a, "stub_body")
    /\ UNCHANGED <<sessVars, nativeVars, cbVars, sinkQ>>

\* ListDevices: warn, return (nil, error).
Stub_ListDevices(t) ==
    /\ IsStub /\ pc[t] = "stub_body" /\ op[t] = "list"
    /\ Return(t, "ErrNotAvailable")
    /\ UNCHANGED <<sessVars, nativeVars, cbVars, sinkQ>>

\* SelectDevice: warn, return error.
Stub_SelectDevice(t) ==
    /\ IsStub /\ pc[t] = "stub_body" /\ op[t] = "select"
    /\ Return(t, "ErrNotAvailable")
    /\ UNCHANGED <<sessVars, nativeVars, cbVars, sinkQ>>

\* StartCapture: warn; the method has no result.
Stub_StartCapture(t) ==
    /\ IsStub /\ pc[t] = "stub_body" /\ op[t] = "start"
    /\ Return(t, "warned")
    /\ UNCHANGED <<sessVars, nativeVars, cbVars, sinkQ>>

\* Stop: warn, return nil.
Stub_Stop(t) ==
    /\ IsStub /\ pc[t] = "stub_body" /\ op[t] = "stop"
    /\ Return(t, "ok")
    /\ UNCHANGED <<sessVars, nativeVars, cbVars, sinkQ>>

NextStub ==
    \/ \E t \in Owners : Stub_Call(t, "list", 0)
    \/ \E t \in Owners, id \in DeviceIds : Stub_Call(t, "select", id)
    \/ \E t \in Owners, s \in Sinks \cup {0} : Stub_Call(t, "start", s)
    \/ \E t \in Owners : Stub_Call(t, "stop", 0)
    \/ \E t \in Owners : Stub_ListDevices(t)
    \/ \E t \in Owners : Stub_SelectDevice(t)
    \/ \E t \in Owners : Stub_StartCapture(t)
    \/ \E t \in Owners : Stub_Stop(t)
    \/ \E t \in Owners : OwnerFinish(t)

SpecStub == InitStub /\ [][NextStub]_vars

\* ----------------------------------------------------------------- claims

\* No step puts an event into a caller-owned channel.
NoSend == \A s \in Sinks : Len(sinkQ'[s]) <= Len(sinkQ[s])

\* C1: darwin with the barrier, SelectDevice -> StartCapture(sink) -> Stop():
\* once Stop() has returned no callback invocation, whenever it began, sends
\* an event into a channel.
C1_NoSendAfterStop ==
    [][(backend = "darwinwg" /\ life = "stopped") => NoSend]_vars

\* C1 witness: Stop() has returned, an event was delivered before, and a
\* callback the bridge fired late is at its send with the dummy channel.
C1_Witness ==
    /\ backend = "darwinwg" /\ life = "stopped"
    /\ sinkQ[1] /= <<>>
    /\ \E c \in Callbacks : cpc[c] = "h_send" /\ ch[c] = Dummy

\* C2 (as claimed): windows, once Stop() has returned nil after
\* SelectDevice -> StartCapture(sink), no event is sent into a channel.
C2_WinNoSendAfterStop ==
    [][(backend = "windows" /\ life = "stopped") => NoSend]_vars

\* C3 (as claimed): Stop() does not return while a callback invocation that
\* has incremented the in-flight count is still executing, and the in-flight
\* count is zero at the moment Stop() disconnects the native connection.
C3_QuiescentBeforeCloseAndReturn ==
    [][\A t \in Owners :
         /\ (op[t] = "stop" /\ pc[t] /= "ret" /\ pc'[t] = "ret"
               /\ res'[t] = "ok")
               => InHandler = {}
         /\ (pc[t] = "st_disc" /\ pc'[t] = "st_store" /\ portConn \in live)
               => wg = 0]_vars

\* C4 (as claimed): every Stop() call completes with a success result and no
\* native connection is closed twice.
C4_StopTwiceSucceeds ==
    /\ \A t \in Owners : (pc[t] = "ret" /\ op[t] = "stop") => res[t] = "ok"
    /\ ~doubleClose

\* C5 (as claimed): StartCapture never waits for the session mutex while
\* holding it itself (a wait that cannot end).
C5_StartCaptureNeverBlocks ==
    \A t \in Owners : ~(op[t] = "start" /\ pc[t] = "st_lock" /\ mu = t)

\* C6 (as claimed): after StartCapture(2) has returned on a session that was
\* capturing into channel 1, callbacks that begin afterwards send nothing
\* into channel 1.
C6_OldSinkRetired ==
    [][life = "restarted" => Len(sinkQ'[1]) <= Len(sinkQ[1])]_vars

\* C7 (as claimed): once a Stop() has returned, no later calls make the
\* session push an event into any channel.
C7_StoppedIsTerminal == [][stopReturned => NoSend]_vars

\* C8 (as claimed): the connection is held exactly while a device is selected
\* or capturing; after Stop() returned on a session with a device selected
\* no connection is held.
C8_HandleIffSelected ==
    /\ life \in {"selected", "started"} => (portConn /= 0 /\ live /= {})
    /\ life \in {"new", "stopped", "selStopped"} => (portConn = 0 /\ live = {})

\* C9 (as claimed): StartCapture on a session with no device selected reports
\* NoDeviceSelected, installs no channel and does not start capturing.
C9_StartOnIdleRejected ==
    life = "idleStarted" =>
      /\ eventChannel = Unset
      /\ ~capturing
      /\ \A t \in Owners : pc[t] = "ret" => res[t] = "NoDeviceSelected"

\* C10 (as claimed): no step of a SelectDevice call with an id outside
\* 0..count-1 changes the connection state, and the call returns an error.
C10_InvalidSelectKeepsState ==
    [][\A t \in Owners :
         (op[t] = "select" /\ (arg[t] < 0 \/ arg[t] >= NumDevices)
            /\ pc'[t] /= pc[t])
         => /\ UNCHANGED <<portConn, handle, eventChannel, capturing, live,
                           startedH>>
            /\ (pc'[t] = "ret" => res'[t] /= "ok")]_vars


\* The connection or handle the session's fields refer to.
HeldConn == IF backend = "windows" THEN handle ELSE portConn

\* C11: in every reachable state at most one native connection is open, and
\* an open connection is the one the session holds: SelectDevice closes the
\* previous connection before it opens the next.
C11_AtMostOneLive ==
    /\ Cardinality(live) <= 1
    /\ live \subseteq {HeldConn}

\* C11 witness: a second SelectDevice has succeeded; the first connection is
\* closed and only the second is open.
C11_Witness ==
    /\ life = "selected" /\ nextConn = 3
    /\ live = {2} /\ portConn = 2

\* C12 (as claimed): when SelectDevice returns because the native port
\* creation, connect or open failed, no connection is open and the session
\* is not capturing.
C12_FailedOpenLeavesIdle ==
    [][\A t \in Owners :
         (/\ op[t] = "select" /\ pc[t] /= "ret" /\ pc'[t] = "ret"
          /\ res'[t] \in {"ErrCreateInputPort", "ErrMIDIConnectionError",
                          "ErrOpen"})
         => (live' = {} /\ ~capturing')]_vars

\* C13 (as claimed): whatever the native stop and close calls report, a
\* Stop() call that ends has returned success.
C13_StopAlwaysSucceeds ==
    \A t \in Owners :
      (op[t] = "stop" /\ pc[t] = "ret") => res[t] \notin {"ErrStop", "panic"}

\* The session was built with WithMIDIEventFilter({NoteOn}).
NoteOnOnly == filterSet /\ filterCommands = <<NoteOn>>

\* The Note-On and Note-Off messages of the claim as the Windows driver
\* passes them.
NoteOnMsgs ==
    {m \in WinMsgs : m.wMsg = MIM_DATA
                       /\ W_Event(m) = [Command |-> 144, Note |-> 60,
                                        Velocity |-> 100]}
NoteOffMsgs == {m \in WinMsgs : m.wMsg = MIM_DATA /\ W_Event(m).Command = 128}

\* C14 (as claimed): with the filter {NoteOn}, a callback invocation handed
\* the Note-Off message (0x80, 60, 0) never reaches the send and enqueues
\* nothing; handed the Note-On message (0x90, 60, 100) while a channel is
\* installed it reaches the send, and with room in the channel the send
\* appends exactly the event (0x90, 60, 100); on darwin and on windows.
C14_NoteOnFilter ==
    [][\A c \in Callbacks :
         NoteOnOnly =>
           /\ D_Handle_Load(c, <<128, 60, 0>>)
                 => (cpc'[c] /= "h_send" /\ sinkQ' = sinkQ)
           /\ (D_Handle_Load(c, <<144, 60, 100>>) /\ LoadChannel /= 0)
                 => (cpc'[c] = "h_send" /\ pkt'[c] = <<144, 60, 100>>)
           /\ (D_Handle_Send(c) /\ pkt[c] = <<144, 60, 100>> /\ CanSend(ch[c]))
                 => sinkQ' = [sinkQ EXCEPT ![ch[c]] =
                                Append(@, [Command |-> 144, Note |-> 60,
                                           Velocity |-> 100])]
           /\ \A m \in NoteOffMsgs :
                 W_Callback_Load(c, m)
                   => (cpc'[c] /= "h_send" /\ sinkQ' = sinkQ)
           /\ \A m \in NoteOnMsgs :
                 (W_Callback_Load(c, m) /\ LoadChannel /= 0)
                   => (cpc'[c] = "h_send" /\ pkt'[c] = W_Event(m))
           /\ (/\ W_Callback_Send(c)
               /\ pkt[c] = [Command |-> 144, Note |-> 60, Velocity |-> 100]
               /\ CanSend(ch[c]))
                 => sinkQ' = [sinkQ EXCEPT ![ch[c]] = Append(@, pkt[c])]]_vars

\* C15 (as claimed): with a filter set, a 3-byte packet handed to the handler
\* while a channel is installed is accepted iff its status byte with the
\* channel nibble cleared is in the filter's commands.
C15_FilterIgnoresChannel ==
    [][\A c \in Callbacks, p \in Packets :
         (Len(p) >= 3 /\ filterSet /\ LoadChannel /= 0 /\ D_Handle_Load(c, p))
         => (cpc'[c] = "h_send"
               <=> isCommandAllowed(p[1] - (p[1] % 16), filterCommands))]_vars

\* C16 (as claimed): with no filter, or with a filter whose command list is
\* empty, every 3-byte packet handed to the handler while a channel is
\* installed is accepted.
C16_AbsentOrEmptyAllowsAll ==
    [][\A c \in Callbacks, p \in Packets :
         (/\ Len(p) >= 3 /\ LoadChannel /= 0
          /\ (~filterSet \/ filterCommands = <<>>)
          /\ D_Handle_Load(c, p))
         => cpc'[c] = "h_send"]_vars

\* C17: the handler's send never waits: it is always able to take its step,
\* a send to a caller's channel that already holds its capacity leaves every
\* channel unchanged and the invocation moves on, and no channel ever holds
\* more than its capacity.
C17_SendNeverBlocks ==
    [][\A c \in Callbacks :
         /\ cpc[c] = "h_send" => ENABLED D_Handle_Send(c)
         /\ (/\ D_Handle_Send(c) /\ ch[c] \in Sinks
             /\ Len(sinkQ[ch[c]]) >= chanCap[ch[c]])
               => (sinkQ' = sinkQ /\ cpc'[c] /= "h_send")
         /\ \A s \in Sinks : Len(sinkQ'[s]) <= chanCap[s]]_vars

\* C17 witness: the caller's channel holds its capacity of undrained events
\* and a further accepted event is at the send.
C17_Witness ==
    /\ Len(sinkQ[1]) = chanCap[1]
    /\ \E c \in Callbacks :
         cpc[c] = "h_send" /\ ch[c] = 1 /\ pkt[c] = <<144, 60, 100>>

\* C18 (as claimed): the event a successful send appends has the packet's
\* status byte with the channel nibble cleared as command, and the packet's
\* two data bytes as note and velocity.
C18_DecodeMasksCommand ==
    [][\A c \in Callbacks :
         (D_Handle_Send(c) /\ CanSend(ch[c]))
         => sinkQ' = [sinkQ EXCEPT ![ch[c]] =
                        Append(@, [Command |-> pkt[c][1] - (pkt[c][1] % 16),
                                   Note |-> pkt[c][2],
                                   Velocity |-> pkt[c][3]])]]_vars

\* C19: a packet of fewer than 3 bytes is discarded: the invocation leaves
\* the handler without reaching the send, and the channels, the session and
\* the native side are unchanged; no invocation is ever at the send with a
\* packet of fewer than 3 bytes.
C19_ShortPacketDiscarded ==
    [][/\ \A c \in Callbacks, p \in Packets :
           (Len(p) < 3 /\ D_Handle_Load(c, p))
           => /\ cpc'[c] = D_HandleLeave
              /\ UNCHANGED <<sinkQ, sessVars, nativeVars>>
       /\ \A c \in Callbacks : cpc'[c] = "h_send" => Len(pkt'[c]) >= 3]_vars

\* C19 witness: while capturing into an empty channel, an invocation that
\* was handed the 2-byte packet is leaving the handler.
C19_Witness ==
    /\ life = "started" /\ eventChannel = 1 /\ sinkQ[1] = <<>>
    /\ \E c \in Callbacks : cpc[c] = "h_done" /\ pkt[c] = <<144, 60>>

\* C20 (amended): on an OS that is neither darwin nor windows NewClient
\* returns no client; on a stub client ListDevices and SelectDevice return
\* an error, StartCapture only warns, Stop returns nil, and no operation
\* installs a channel or delivers an event.
C20_StubOperations ==
    /\ \A goos \in GOOS \ {"darwin", "windows"} : NewClient(goos) = "none"
    /\ backend = "none" => \A t \in Owners : pc[t] = "idle"
    /\ \A t \in Owners :
         pc[t] = "ret" =>
           res[t] = CASE op[t] \in {"list", "select"} -> "ErrNotAvailable"
                      [] op[t] = "start" -> "warned"
                      [] op[t] = "stop" -> "ok"
    /\ eventChannel = Unset /\ ~capturing /\ live = {}
    /\ \A s \in Sinks : sinkQ[s] = <<>>

\* C20 witness: on a stub client one caller has its error from SelectDevice
\* and another has nil from Stop.
C20_Witness ==
    /\ IsStub
    /\ \E t \in Owners : pc[t] = "ret" /\ op[t] = "select"
                           /\ res[t] = "ErrNotAvailable"
    /\ \E t \in Owners : pc[t] = "ret" /\ op[t] = "stop" /\ res[t] = "ok"

\* C20 (as claimed): NewClient returns no client on such an OS, every
\* operation of a stub client reports failure (StartCapture, which has no
\* result, by its warning), and no event is delivered.
C20_Original ==
    /\ \A goos \in GOOS \ {"darwin", "windows"} : NewClient(goos) = "none"
    /\ \A t \in Owners :
         pc[t] = "ret" => res[t] \in {"ErrNotAvailable", "warned"}
    /\ \A s \in Sinks : sinkQ[s] = <<>>

\* C21: no step of a ListDevices call changes the session, the native side
\* or the channels; when the platform reports zero endpoints the call returns
\* the no-devices error, and with at least one endpoint it returns the list.
C21_ListDevicesReadOnly ==
    [][\A t \in Owners :
         /\ (op'[t] = "list" /\ pc'[t] /= pc[t])
               => UNCHANGED <<sessVars, nativeVars, cbVars, sinkQ>>
         /\ ListDevices(t, 0, TRUE) => res'[t] = "ErrNoMIDIDevices"
         /\ \A n \in 1..NumDevices : ListDevices(t, n, TRUE) => res'[t] = "ok"]_vars

\* C21 witness: ListDevices called on a capturing session has returned the
\* no-devices error; the connection and the channel are still in place.
C21_Witness ==
    /\ life = "started" /\ capturing /\ portConn \in live /\ eventChannel = 1
    /\ \E t \in Owners : pc[t] = "ret" /\ op[t] = "list"
                           /\ res[t] = "ErrNoMIDIDevices"

\* C22 (as claimed): darwin without the barrier, SelectDevice ->
\* StartCapture(sink) -> Stop(): the Stop() call returns (it does not end in
\* a panic), and once it has ended no callback invocation, including one in
\* flight when Stop() was called, sends into a channel, so the caller may
\* close the channel as the example program does.
C22_CloseAfterStopSafe ==
    [][backend = "darwinnb" =>
         /\ life' /= "stopPanicked"
         /\ life \in {"stopped", "stopPanicked"} => NoSend]_vars

\* C23 (amended): Stop() on a capturing session first marks it not
\* capturing, then disconnects the connection, then replaces the channel
\* reference with the dummy channel, and only then waits for the in-flight
\* count: at each later step the earlier ones have been done, and during
\* the wait the reference is already the dummy channel.
C23_StopOrder ==
    \A t \in Owners :
      /\ pc[t] = "st_disc"  => ~capturing
      /\ pc[t] = "st_store" => (~capturing /\ portConn = 0)
      /\ pc[t] \in {"st_wait", "st_blocked"}
            => (~capturing /\ portConn = 0 /\ eventChannel = Dummy)

\* C23 witness: Stop() is at its wait with a callback still executing; the
\* session is not capturing, nothing is connected and the reference already
\* is the dummy channel.
C23_Witness ==
    \E t \in Owners :
      /\ pc[t] = "st_blocked" /\ wg > 0
      /\ ~capturing /\ portConn = 0 /\ live = {} /\ eventChannel = Dummy

\* C23 (as claimed): Stop() changes the channel reference only after its
\* wait for the in-flight count is over.
C23_Original ==
    [][\A t \in Owners :
         (op[t] = "stop" /\ pc'[t] /= pc[t] /\ eventChannel' /= eventChannel)
            => pc[t] \in {"st_unlock", "st_done", "st_exit"}]_vars

\* C24: darwin with the barrier: the in-flight count equals the number of
\* callback invocations that have entered handleMIDIMessage and not yet left
\* it, whatever exit path they are on; it is never negative and is zero
\* whenever no callback is running (as long as the process runs).
C24_InFlightCount ==
    (backend = "darwinwg" /\ ~Crashed) =>
      /\ wg = Cardinality(InHandler)
      /\ wg >= 0
      /\ (InHandler = {} => wg = 0)

\* C24 witness: two invocations are counted, one about to send and one on an
\* exit path that sends nothing.
C24_Witness ==
    /\ backend = "darwinwg" /\ wg >= 2
    /\ \E c, d \in Callbacks : cpc[c] = "h_send" /\ cpc[d] = "h_done"

\* C25 (as claimed): no owner operation holds the session mutex while it is
\* inside a native open, connect or disconnect call, or while it waits for
\* the in-flight count.
C25_NoLockAcrossNative ==
    \A t \in Owners :
      (\/ pc[t] \in {"sd_port", "sd_conn", "st_wait", "st_blocked"}
       \/ (pc[t] \in {"sd_disc", "st_disc"} /\ portConn /= 0))
         => mu /= t

\* C27 (as claimed): after SelectDevice has returned successfully on a
\* capturing session (no callback of the previous connection left), no event
\* is pushed into a channel until StartCapture is called again.
C27_ReselectStopsDelivery ==
    [][life = "reselected" => NoSend]_vars

\* C28 (as claimed): windows: when StartCapture fails at midiInStart or finds
\* an invalid handle, it returns with no channel installed, so that a later
\* StartCapture is not taken for a capture already started.
C28_FailedStartLeavesNoSink ==
    [][\A t \in Owners :
         (backend = "windows" /\ op[t] = "start" /\ pc[t] /= "ret"
            /\ pc'[t] = "ret" /\ res'[t] \in {"ErrStart", "ErrInvalidHandle"})
           => eventChannel' = Unset]_vars

\* C30 (as claimed): every step of an owner operation that writes the
\* capturing flag or the connection handle is taken by the thread that holds
\* the session mutex.
C30_WritesUnderMutex ==
    [][\A t \in Owners :
         (pc'[t] /= pc[t]
            /\ (capturing' /= capturing \/ portConn' /= portConn
                  \/ handle' /= handle))
           => mu = t]_vars

\* C29: with callback invocations serialized, an event enters a channel only
\* as the event of the delivery in progress and behind events of earlier
\* deliveries only, and events leave a channel from its head only: the
\* events in a channel are in the order of their deliveries, each delivery at
\* most once; nothing is reordered or duplicated.
C29_OrderPreserved ==
    [][\A s \in Sinks :
         /\ IF Len(sinkQ'[s]) > Len(sinkQ[s])
              THEN /\ Len(sinkQ'[s]) = Len(sinkQ[s]) + 1
                   /\ SubSeq(sinkQ'[s], 1, Len(sinkQ[s])) = sinkQ[s]
                   /\ sinkQ'[s][Len(sinkQ'[s])].Note = delivered
                   /\ \A i \in 1..Len(sinkQ[s]) : sinkQ[s][i].Note < delivered
              ELSE \/ sinkQ'[s] = sinkQ[s]
                   \/ sinkQ[s] /= <<>> /\ sinkQ'[s] = Tail(sinkQ[s])
         /\ \A i, j \in 1..Len(sinkQ'[s]) :
              i < j => sinkQ'[s][i].Note < sinkQ'[s][j].Note]_vars

\* C29 witness: the channel has room for two events and holds the first and
\* the third delivery, in that order; the second was filtered out or was a
\* short packet.
C29_Witness ==
    /\ delivered = 3 /\ chanCap[1] = 2
    /\ Len(sinkQ[1]) = 2
    /\ sinkQ[1][1].Note = 1 /\ sinkQ[1][2].Note = 3

\* C26 (as claimed): darwin with the barrier: a Stop() call that races with
\* callback invocations, with no other owner operation in progress,
\* eventually returns, provided Stop() and every handler invocation keep
\* running.
C26_StopEventuallyReturns ==
    \A t \in Owners :
      (op[t] = "stop" /\ pc[t] = "st_once")
         ~> (op[t] = "stop" /\ pc[t] = "ret" /\ res[t] = "ok")

\* C33 (as claimed): for both loggers and every configured minimum level, a
\* message whose severity is at least that of the minimum level is emitted
\* (the logger having somewhere to write to): the call writes the line, or
\* for the zap logger passes it on to be written, and what was passed on is
\* written; with the minimum level Warn, Error messages are emitted.
C33_LoggerThreshold ==
    [][/\ \A sev \in LogLevels :
           (/\ Logger_Log(sev)
            /\ DestinationTakes(logger)
            /\ Severity(sev) >= Severity(logger.level))
              => \/ logger'.out = Append(logger.out, sev)
                 \/ logger'.pending = Append(logger.pending, sev)
       /\ \A i \in 1..MaxLogCalls :
           Logger_Write(i)
              => logger'.out = Append(logger.out, logger.pending[i])]_vars

\* C32: a list ListDevices returns has one entry per native endpoint, in
\* native index order: entry i is the descriptor of endpoint i, or the empty
\* descriptor when the metadata query for endpoint i failed, and the endpoint
\* SelectDevice(i) opens is the one entry i stands for.
C32_ListIndexIsNativeIndex ==
    listing.res = "ok" =>
      /\ Len(listing.list) = Len(listing.native)
      /\ \A i \in 1..Len(listing.native) :
           /\ listing.native[i].capsOk
                => listing.list[i] = Descriptor(listing.native[i].id)
           /\ ~listing.native[i].capsOk => listing.list[i] = ZeroDescriptor
      /\ listing.opened /= 0
           => /\ listing.sel + 1 \in 1..Len(listing.list)
              /\ listing.list[listing.sel + 1]
                   \in {Descriptor(listing.opened), ZeroDescriptor}

\* C32 witness: windows, the query failed for the first endpoint, and
\* SelectDevice(1) opened the endpoint the second entry describes.
C32_Witness ==
    /\ backend = "windows" /\ listing.res = "ok"
    /\ Len(listing.native) >= 2 /\ ~listing.native[1].capsOk
    /\ listing.sel = 1 /\ listing.selRes = "ok" /\ listing.opened /= 0
    /\ handle \in live /\ portConn = 1
    /\ listing.list[2] = Descriptor(listing.opened)

\* C31: while a device is selected and StartCapture has not been called, no
\* event enters a channel; a callback that finds no channel installed leaves
\* the handler without sending and without changing the session, the native
\* side or the owner's calls.
C31_NoSendBeforeStart ==
    [][/\ life \in {"selecting", "selected", "reselecting", "reselectFailed"}
            => NoSend
       /\ \A c \in Callbacks, p \in Packets :
            (eventChannel = Unset /\ D_Handle_Load(c, p))
              => /\ cpc'[c] = D_HandleLeave
                 /\ UNCHANGED <<sessVars, nativeVars, ownerVars, sinkQ>>]_vars

\* C31 witness: a device is selected, StartCapture was never called, and a
\* callback handed a complete note-on packet has left the handler body with
\* nothing sent.
C31_Witness ==
    /\ life = "selected" /\ eventChannel = Unset /\ portConn \in live
    /\ \A s \in Sinks : sinkQ[s] = <<>>
    /\ \E c \in Callbacks : cpc[c] = "h_done" /\ pkt[c] = <<144, 60, 100>>

====
